---- MODULE Spec2Model ----
\* X402Client (mcp-server/src/x402-client.ts): its constructor, query
\* validation and the two-round-trip x402 payment protocol of executeQuery;
\* the execute_query and check_balance tool handlers (tools/execute-query.ts,
\* tools/check-balance.ts) and the start of the server
\* (mcp-server/src/index.ts).
EXTENDS Integers, Sequences, FiniteSets, TLC

VARIABLES
    client,     \* the constructed X402Client: gatewayUrl, providerId, apiKey, wallet
    pc,         \* per call: position of executeQuery in the protocol
    query,      \* per call: the query argument (a sequence of characters)
    agentWallet,\* per call: the caller address argument (a sequence of characters)
    requests,   \* per call: the fetch requests issued so far, in order
    replies,    \* per call: what came back for them (a response or a rejection)
    signed,     \* per call: the X-PAYMENT headers signAuthorization produced
    result,     \* per call: what the promise settled with (None while running)
    trail,      \* per call: the positions visited so far, in order
    server,     \* how the client came to be: the configuration and the constructor's outcome
    tool        \* per call: the execute_query tool handler's input, position and response

vars == <<client, pc, query, agentWallet, requests, replies, signed, result, trail,
          server, tool>>

----------------------------------------------------------------------------
\* Optional values: undefined is None, a present value v is Some(v).

None == <<>>
Some(v) == <<v>>
IsSome(o) == o # None
Val(o) == o[1]

----------------------------------------------------------------------------
\* Characters and strings.  A query or an address is a sequence of
\* one-character strings, so that trim, toUpperCase and \b act on characters.

LowerLetters ==
    <<"a","b","c","d","e","f","g","h","i","j","k","l","m",
      "n","o","p","q","r","s","t","u","v","w","x","y","z">>

UpperLetters ==
    <<"A","B","C","D","E","F","G","H","I","J","K","L","M",
      "N","O","P","Q","R","S","T","U","V","W","X","Y","Z">>

Digits == {"0","1","2","3","4","5","6","7","8","9"}

Range(s) == { s[i] : i \in DOMAIN s }

\* Characters String.prototype.trim removes.
WhiteSpace == {" ", "\n", "\t"}

\* The class \w of a JavaScript regular expression.
WordChars == Range(LowerLetters) \cup Range(UpperLetters) \cup Digits \cup {"_"}

IsWordChar(ch) == ch \in WordChars

\* The upper-case letter of each lower-case letter.
UpperOf == [ch \in Range(LowerLetters) |->
                UpperLetters[CHOOSE i \in DOMAIN LowerLetters : LowerLetters[i] = ch]]

CharToUpper(ch) == IF ch \in DOMAIN UpperOf THEN UpperOf[ch] ELSE ch

toUpperCase(s) == [i \in DOMAIN s |-> CharToUpper(s[i])]

trim(s) ==
    IF \A i \in DOMAIN s : s[i] \in WhiteSpace
    THEN <<>>
    ELSE LET keep  == { i \in DOMAIN s : s[i] \notin WhiteSpace }
             first == CHOOSE i \in keep : \A j \in keep : i <= j
             last  == CHOOSE i \in keep : \A j \in keep : j <= i
         IN  SubSeq(s, first, last)

\* The assertion \b at the gap before position p of s (p in 1..Len(s)+1).
WordBoundary(s, p) ==
    (p > 1 /\ IsWordChar(s[p - 1])) # (p <= Len(s) /\ IsWordChar(s[p]))

FORBIDDEN_OPERATIONS ==
    <<"DROP", "DELETE", "UPDATE", "INSERT", "ALTER", "CREATE", "TRUNCATE", "GRANT", "REVOKE">>

\* The characters of each FORBIDDEN_OPERATIONS entry.
OperationChars ==
    <<  <<"D","R","O","P">>,
        <<"D","E","L","E","T","E">>,
        <<"U","P","D","A","T","E">>,
        <<"I","N","S","E","R","T">>,
        <<"A","L","T","E","R">>,
        <<"C","R","E","A","T","E">>,
        <<"T","R","U","N","C","A","T","E">>,
        <<"G","R","A","N","T">>,
        <<"R","E","V","O","K","E">>  >>

\* Mutant of RegexTest: a substring test, the \b assertions dropped.
RegexTestNoBoundary(word, s) ==
    \E i \in 1..(Len(s) - Len(word) + 1) : SubSeq(s, i, i + Len(word) - 1) = word

\* new RegExp(`\\b${operation}\\b`).test(s)
RegexTest(word, s) ==
    \E i \in 1..(Len(s) - Len(word) + 1) :
        /\ SubSeq(s, i, i + Len(word) - 1) = word
        /\ WordBoundary(s, i)
        /\ WordBoundary(s, i + Len(word))

\* Mutant of validateQuery: the query is not upper-cased before the tests.
validateQueryCaseSensitive(q) ==
    LET hits == { k \in DOMAIN FORBIDDEN_OPERATIONS : RegexTest(OperationChars[k], trim(q)) }
    IN  IF hits = {} THEN None
        ELSE Some("Forbidden SQL operation: "
                  \o FORBIDDEN_OPERATIONS[CHOOSE k \in hits : \A j \in hits : k <= j])

\* Mutant of validateQuery: the operation named is the one that stands first
\* in the query.
validateQueryLeftmost(q) ==
    LET upperQuery == toUpperCase(trim(q))
        hits == { k \in DOMAIN FORBIDDEN_OPERATIONS : RegexTest(OperationChars[k], upperQuery) }
        At(k) == CHOOSE i \in 1..Len(upperQuery) :
                    /\ i + Len(OperationChars[k]) - 1 <= Len(upperQuery)
                    /\ SubSeq(upperQuery, i, i + Len(OperationChars[k]) - 1) = OperationChars[k]
                    /\ WordBoundary(upperQuery, i)
                    /\ WordBoundary(upperQuery, i + Len(OperationChars[k]))
    IN  IF hits = {} THEN None
        ELSE Some("Forbidden SQL operation: "
                  \o FORBIDDEN_OPERATIONS[CHOOSE k \in hits : \A j \in hits : At(k) <= At(j)])

\* validateQuery: None when the query passes, Some(message) for the Error thrown.
validateQuery(q) ==
    LET upperQuery == toUpperCase(trim(q))
        hits == { k \in DOMAIN FORBIDDEN_OPERATIONS : RegexTest(OperationChars[k], upperQuery) }
    IN  IF hits = {} THEN None
        ELSE Some("Forbidden SQL operation: "
                  \o FORBIDDEN_OPERATIONS[CHOOSE k \in hits : \A j \in hits : k <= j])

----------------------------------------------------------------------------
\* Addresses, payment requirements, gateway responses.

AddressHexLen == 40

HexChars == Digits \cup {"a","b","c","d","e","f","A","B","C","D","E","F"}

Repeat(ch, n) == [i \in 1..n |-> ch]

\* "0x" followed by AddressHexLen copies of one character.
Addr(ch) == <<"0", "x">> \o Repeat(ch, AddressHexLen)

\* What the typed-data encoder accepts for a field of type address.
IsHexAddress(a) ==
    /\ Len(a) = AddressHexLen + 2
    /\ a[1] = "0"
    /\ a[2] = "x"
    /\ \A i \in 3..Len(a) : a[i] \in HexChars

EIP3009_DOMAIN ==
    [ name |-> "USD Coin", version |-> "2", chainId |-> 8453,
      verifyingContract |-> "0x833589fCD6eDb6E08f4c7C32D4f71b54bdA02913" ]

\* PaymentRequirement values a gateway may send.
Requirement(scheme, network, amount, payTo, timeout) ==
    [ scheme |-> scheme, network |-> network, maxAmountRequired |-> amount,
      asset |-> "0x833589fCD6eDb6E08f4c7C32D4f71b54bdA02913",
      payTo |-> payTo, maxTimeoutSeconds |-> timeout ]

ReqExact == Requirement("exact", "base", "1000", Addr("b"), Some(60))
\* A requirement on another network, in that network's asset.
ReqUpto ==
    [Requirement("upto", "base-sepolia", "2500", Addr("c"), Some(300))
        EXCEPT !.asset = "0x036CbD53842c5426634e7929541eC2318f3dCF7e"]
ReqBadPayTo == Requirement("exact", "base", "1000", <<"0", "x", "z">>, Some(60))
ReqNoTimeout == Requirement("exact", "base", "1000", Addr("b"), None)

\* A response body as Response.json() sees it: kind "nonjson" (json() rejects),
\* "null" (the JSON value null) or "object" with the fields present in it.
Body(kind, rows, rowCount, estimatedCost, actualCost, executionTime,
     paymentSource, error, x402Version, accepts) ==
    [ kind |-> kind, rows |-> rows, rowCount |-> rowCount,
      estimatedCost |-> estimatedCost, actualCost |-> actualCost,
      executionTime |-> executionTime, paymentSource |-> paymentSource,
      error |-> error, x402Version |-> x402Version, accepts |-> accepts ]

NonJsonBody == Body("nonjson", None, None, None, None, None, None, None, None, None)
NullBody == Body("null", None, None, None, None, None, None, None, None, None)
EmptyObjectBody == Body("object", None, None, None, None, None, None, None, None, None)

RowsBody(source) ==
    Body("object", Some(<<"row1", "row2">>), Some(5), Some("0.000060"),
         Some("0.000050"), Some(12), Some(source), None, None, None)

ChallengeBody(version, error, accepts) ==
    Body("object", None, None, None, None, None, None, Some(error), Some(version), accepts)

ErrorBody(error) ==
    Body("object", None, None, None, None, None, None, Some(error), None, None)

\* An exception: throw new Error(message).
Throw(message) == [ thrown |-> message ]

\* o is an exception, not a returned value.
IsThrown(o) == "thrown" \in DOMAIN o

JsonSyntaxError == "Unexpected token < in JSON at position 0"

\* JSON texts, by the value they spell: a string, a number, a boolean, an
\* object (its members by key), or a text that is not JSON.
JsonString(s) == [ json |-> "string", value |-> s ]
JsonNumber(n) == [ json |-> "number", value |-> n ]
JsonBoolean(b) == [ json |-> "boolean", value |-> b ]
JsonObject(members) == [ json |-> "object", members |-> members ]
InvalidJson == [ json |-> "invalid" ]

\* The value a well-formed JSON text spells.
RECURSIVE JsonValue(_)
JsonValue(text) ==
    IF text.json = "object"
    THEN [ k \in DOMAIN text.members |-> JsonValue(text.members[k]) ]
    ELSE text.value

\* JSON.parse(text): the value, or a SyntaxError thrown.
JsonParse(text) ==
    IF text.json = "invalid" THEN Throw(JsonSyntaxError) ELSE JsonValue(text)

\* Mutant of JsonStringify: scheme and network change places.
JsonStringifySwapped(xPayment) ==
    JsonObject(
        [ x402Version |-> JsonNumber(xPayment.x402Version),
          scheme |-> JsonString(xPayment.network),
          network |-> JsonString(xPayment.scheme),
          payload |-> JsonObject(
            [ authorization |-> JsonObject(
                [ from |-> JsonString(xPayment.payload.authorization.from),
                  to |-> JsonString(xPayment.payload.authorization.to),
                  value |-> JsonString(xPayment.payload.authorization.value),
                  validAfter |-> JsonString(xPayment.payload.authorization.validAfter),
                  validBefore |-> JsonString(xPayment.payload.authorization.validBefore),
                  nonce |-> JsonString(xPayment.payload.authorization.nonce) ]),
              signature |-> JsonString(xPayment.payload.signature) ]) ])

\* JSON.stringify(xPayment) for an XPaymentHeader: every property is defined,
\* x402Version is a number and all the leaves below it are strings.
JsonStringify(xPayment) ==
    JsonObject(
        [ x402Version |-> JsonNumber(xPayment.x402Version),
          scheme |-> JsonString(xPayment.scheme),
          network |-> JsonString(xPayment.network),
          payload |-> JsonObject(
            [ authorization |-> JsonObject(
                [ from |-> JsonString(xPayment.payload.authorization.from),
                  to |-> JsonString(xPayment.payload.authorization.to),
                  value |-> JsonString(xPayment.payload.authorization.value),
                  validAfter |-> JsonString(xPayment.payload.authorization.validAfter),
                  validBefore |-> JsonString(xPayment.payload.authorization.validBefore),
                  nonce |-> JsonString(xPayment.payload.authorization.nonce) ]),
              signature |-> JsonString(xPayment.payload.signature) ]) ])

\* Buffer.from(text).toString('base64')
Base64Encode(text) == [ base64 |-> text ]

\* Buffer.from(encoded, 'base64').toString('utf-8'): it never throws.
Base64Decode(encoded) == encoded.base64

\* An X-PAYMENT-RESPONSE header holding a SettlementResponse.
SettlementHeader ==
    Base64Encode(JsonObject([ success |-> JsonBoolean(TRUE),
                              payer |-> JsonString(Addr("1")),
                              transaction |-> JsonString("0xabc"),
                              network |-> JsonString("base"),
                              timestamp |-> JsonNumber(1700) ]))

\* An X-PAYMENT-RESPONSE header whose decoded text is not JSON.
MalformedSettlementHeader == Base64Encode(InvalidJson)

Response(status, statusText, body, header) ==
    [ kind |-> "response", status |-> status, statusText |-> statusText,
      body |-> body, xPaymentResponse |-> header, message |-> "" ]

\* fetch rejected with an Error carrying this message.
Rejection(message) ==
    [ kind |-> "reject", status |-> 0, statusText |-> "",
      body |-> NonJsonBody, xPaymentResponse |-> None, message |-> message ]

Responses ==
    { Response(200, "OK", RowsBody("credit"), None),
      Response(200, "OK", RowsBody("payment"), Some(SettlementHeader)),
      Response(200, "OK", RowsBody("payment"), Some(MalformedSettlementHeader)),
      Response(200, "OK", EmptyObjectBody, None),
      Response(200, "OK", NonJsonBody, None),
      Response(200, "OK", NullBody, None),
      Response(201, "Created", RowsBody("payment"), None),
      Response(402, "Payment Required", ChallengeBody(1, "payment required", Some(<<ReqExact>>)), None),
      Response(402, "Payment Required", ChallengeBody(2, "", Some(<<ReqUpto, ReqExact>>)), None),
      Response(402, "Payment Required", ChallengeBody(1, "payment required", Some(<<>>)), None),
      Response(402, "Payment Required", ChallengeBody(1, "payment required", Some(<<ReqBadPayTo, ReqExact>>)), None),
      Response(402, "Payment Required", ChallengeBody(1, "payment required", Some(<<ReqNoTimeout>>)), None),
      Response(402, "Payment Required", ErrorBody("insufficient funds"), None),
      Response(402, "", NonJsonBody, None),
      Response(402, "Payment Required", NullBody, None),
      Response(500, "Internal Server Error", ErrorBody("boom"), None),
      Response(500, "Internal Server Error", NullBody, None),
      Response(503, "Service Unavailable", NonJsonBody, None) }

Rejections == { Rejection("fetch failed") }

----------------------------------------------------------------------------
\* QueryResult values.

EmptyResult ==
    [ success |-> FALSE, rows |-> None, rowCount |-> None, estimatedCost |-> None,
      actualCost |-> None, executionTime |-> None, settlement |-> None,
      paymentSource |-> None, paymentRequired |-> None,
      paymentRequirements |-> None, message |-> None, error |-> None ]

ErrorResult(message) == [EmptyResult EXCEPT !.error = Some(message)]

\* Mutant of SuccessResult: actualCost is filled from estimatedCost.
SuccessResultCostMixup(data, settlement) ==
    [EmptyResult EXCEPT !.success = TRUE, !.rows = data.rows,
                        !.rowCount = data.rowCount,
                        !.estimatedCost = data.estimatedCost,
                        !.actualCost = data.estimatedCost,
                        !.executionTime = data.executionTime,
                        !.paymentSource = data.paymentSource,
                        !.settlement = settlement]

\* Mutant of SuccessResult: the payment source is worked out from the
\* settlement, not taken from the response.
SuccessResultSourceGuessed(data, settlement) ==
    [EmptyResult EXCEPT !.success = TRUE, !.rows = data.rows,
                        !.rowCount = data.rowCount,
                        !.estimatedCost = data.estimatedCost,
                        !.actualCost = data.actualCost,
                        !.executionTime = data.executionTime,
                        !.paymentSource = IF settlement = None THEN Some("credit")
                                          ELSE Some("payment"),
                        !.settlement = settlement]

\* { success: true, rows: data.rows, ..., settlement }
SuccessResult(data, settlement) ==
    [EmptyResult EXCEPT !.success = TRUE, !.rows = data.rows,
                        !.rowCount = data.rowCount,
                        !.estimatedCost = data.estimatedCost,
                        !.actualCost = data.actualCost,
                        !.executionTime = data.executionTime,
                        !.paymentSource = data.paymentSource,
                        !.settlement = settlement]

ManualPaymentMessage ==
    "Payment required. Configure AGENT_PRIVATE_KEY to enable automatic payments, or sign manually."

PaymentRequiredResult(paymentReq) ==
    [EmptyResult EXCEPT !.paymentRequired = Some(TRUE),
                        !.paymentRequirements = Some(paymentReq),
                        !.message = Some(ManualPaymentMessage)]

\* Messages of the errors the runtime and the signing library throw.
ReadOfNull(property) == "Cannot read properties of null (reading '" \o property \o "')"
ReadOfUndefined(property) == "Cannot read properties of undefined (reading '" \o property \o "')"
SigningError == "invalid value for typed data"

WalletNotConfiguredError ==
    "Agent wallet not configured. Set AGENT_PRIVATE_KEY in environment."

NoRequirementError == "No payment requirement returned from gateway"

\* Mutant of CatchValidation: the exception leaves executeQuery.
ValidationRethrown(o) == o

\* Lines 211-216: catch (error) { return { success: false, error: error.message } }
CatchValidation(o) == IF IsThrown(o) THEN ErrorResult(o.thrown) ELSE o

\* Mutant of Catch: the exception leaves executeQuery.
Uncaught(o) == o

\* Lines 328-333: catch (error) { return { success: false, error: error.message } }
Catch(o) == IF IsThrown(o) THEN ErrorResult(o.thrown) ELSE o

\* Response.ok
Ok(response) == response.status >= 200 /\ response.status <= 299

\* errorData.error || response.statusText, errorData being the parsed body or,
\* when json() rejects, { error: response.statusText }.
ErrorDetail(response) ==
    IF response.body.kind = "object" /\ IsSome(response.body.error)
       /\ Val(response.body.error) # ""
    THEN Val(response.body.error)
    ELSE response.statusText

\* Lines 322-327: the result for a first response that is neither 402 nor ok.
GatewayErrorResult(response) ==
    IF response.body.kind = "null"
    THEN Throw(ReadOfNull("error"))
    ELSE ErrorResult("Gateway error (" \o ToString(response.status) \o "): "
                     \o ErrorDetail(response))

\* Mutant of PaymentErrorResult: the body's error is dropped for the status text.
PaymentErrorResultStatusText(response) ==
    ErrorResult("Payment failed (" \o ToString(response.status) \o "): "
                \o response.statusText)

\* Lines 300-305: the result for a retry response that is not ok.
PaymentErrorResult(response) ==
    IF response.body.kind = "null"
    THEN Throw(ReadOfNull("error"))
    ELSE ErrorResult("Payment failed (" \o ToString(response.status) \o "): "
                     \o ErrorDetail(response))

\* Lines 278-286: the settlement read from the X-PAYMENT-RESPONSE header; a
\* header that does not parse is logged and leaves the settlement undefined.
ParseSettlement(response) ==
    IF IsSome(response.xPaymentResponse)
    THEN LET parsed == JsonParse(Base64Decode(Val(response.xPaymentResponse)))
         IN  IF IsThrown(parsed) THEN None ELSE Some(parsed)
    ELSE None

\* Lines 309-320: the result for an ok first response.
InitialSuccessResult(response) ==
    CASE response.body.kind = "nonjson" -> Throw(JsonSyntaxError)
      [] response.body.kind = "null" -> Throw(ReadOfNull("rows"))
      [] OTHER -> SuccessResult(response.body, None)

\* Mutant of PaymentSuccessResult: the settlement header is parsed outside
\* any try block of its own.
PaymentSuccessResultStrictHeader(response) ==
    CASE response.body.kind = "nonjson" -> Throw(JsonSyntaxError)
      [] response.body.kind = "null" -> Throw(ReadOfNull("rows"))
      [] OTHER ->
            IF IsSome(response.xPaymentResponse)
               /\ IsThrown(JsonParse(Base64Decode(Val(response.xPaymentResponse))))
            THEN JsonParse(Base64Decode(Val(response.xPaymentResponse)))
            ELSE SuccessResult(response.body, ParseSettlement(response))

\* Lines 274-298: the result for an ok retry response.
PaymentSuccessResult(response) ==
    CASE response.body.kind = "nonjson" -> Throw(JsonSyntaxError)
      [] response.body.kind = "null" -> Throw(ReadOfNull("rows"))
      [] OTHER -> SuccessResult(response.body, ParseSettlement(response))

----------------------------------------------------------------------------
\* Signing.

Nonces == { "0x" \o "nonce-a", "0x" \o "nonce-b" }
Times == { 1000, 2000 }

AgentKey == [ address |-> Addr("a") ]

\* wallet.signTypedData rejects when a field does not encode as its
\* EIP3009_TYPES type: from and to as address, validBefore as uint256
\* (now + undefined is NaN).
CanSign(requirement, from) ==
    /\ IsHexAddress(from)
    /\ IsHexAddress(requirement.payTo)
    /\ IsSome(requirement.maxTimeoutSeconds)

\* Mutant of signAuthorization: validBefore leaves the clock out.
signAuthorizationNoClock(wallet, requirement, from, now, nonce) ==
    IF wallet = None THEN Throw(WalletNotConfiguredError)
    ELSE IF ~CanSign(requirement, from) THEN Throw(SigningError)
    ELSE
    LET authorization ==
            [ from |-> from,
              to |-> requirement.payTo,
              value |-> requirement.maxAmountRequired,
              validAfter |-> "0",
              validBefore |-> ToString(Val(requirement.maxTimeoutSeconds)),
              nonce |-> nonce ]
    IN  [ x402Version |-> 1,
          scheme |-> requirement.scheme,
          network |-> requirement.network,
          payload |-> [ authorization |-> authorization,
                        signature |-> [ signer |-> Val(wallet).address,
                                        domain |-> EIP3009_DOMAIN,
                                        message |-> authorization ] ] ]

\* Mutant of signAuthorization: the domain and the version follow what the
\* gateway asked for.
signAuthorizationDerivedDomain(wallet, requirement, from, now, nonce) ==
    IF wallet = None THEN Throw(WalletNotConfiguredError)
    ELSE IF ~CanSign(requirement, from) THEN Throw(SigningError)
    ELSE
    LET authorization ==
            [ from |-> from,
              to |-> requirement.payTo,
              value |-> requirement.maxAmountRequired,
              validAfter |-> "0",
              validBefore |-> ToString(now + Val(requirement.maxTimeoutSeconds)),
              nonce |-> nonce ]
    IN  [ x402Version |-> 1,
          scheme |-> requirement.scheme,
          network |-> requirement.network,
          payload |-> [ authorization |-> authorization,
                        signature |->
                            [ signer |-> Val(wallet).address,
                              domain |-> [EIP3009_DOMAIN EXCEPT
                                            !.verifyingContract = requirement.asset],
                              message |-> authorization ] ] ]

\* signAuthorization: it throws without a wallet (lines 165-167) and when
\* signTypedData rejects the authorization; otherwise the XPaymentHeader, now
\* being Math.floor(Date.now() / 1000) and nonce what generateNonce returned.
signAuthorization(wallet, requirement, from, now, nonce) ==
    IF wallet = None THEN Throw(WalletNotConfiguredError)
    ELSE IF ~CanSign(requirement, from) THEN Throw(SigningError)
    ELSE
    LET authorization ==
            [ from |-> from,
              to |-> requirement.payTo,
              value |-> requirement.maxAmountRequired,
              validAfter |-> "0",
              validBefore |-> ToString(now + Val(requirement.maxTimeoutSeconds)),
              nonce |-> nonce ]
    IN  [ x402Version |-> 1,
          scheme |-> requirement.scheme,
          network |-> requirement.network,
          payload |-> [ authorization |-> authorization,
                        signature |-> [ signer |-> Val(wallet).address,
                                        domain |-> EIP3009_DOMAIN,
                                        message |-> authorization ] ] ]

\* Mutant of SelectRequirement: the last requirement of the list.
SelectLastRequirement(accepts) == accepts[Len(accepts)]

\* paymentReq.accepts[0]
SelectRequirement(accepts) == accepts[1]

\* Buffer.from(JSON.stringify(xPayment)).toString('base64')
EncodeHeader(xPayment) == Base64Encode(JsonStringify(xPayment))

\* Mutant of Request: the x-api-key header is sent empty.
RequestWithoutApiKey(c, xPayment) ==
    [ url |-> client.gatewayUrl \o "/api/query",
      method |-> "POST",
      headers |-> [ contentType |-> "application/json",
                    apiKey |-> "",
                    xPayment |-> xPayment ],
      body |-> [ sql |-> query[c], agentWallet |-> agentWallet[c],
                 providerId |-> client.providerId ] ]

\* The request fetch sends: the X-PAYMENT header is None on the first attempt.
Request(c, xPayment) ==
    [ url |-> client.gatewayUrl \o "/api/query",
      method |-> "POST",
      headers |-> [ contentType |-> "application/json",
                    apiKey |-> client.apiKey,
                    xPayment |-> xPayment ],
      body |-> [ sql |-> query[c], agentWallet |-> agentWallet[c],
                 providerId |-> client.providerId ] ]

----------------------------------------------------------------------------
\* Inputs.

MaxPieces == 3

\* Every forbidden operation in one letter case, and the characters that can
\* stand next to it: a letter, a digit, an underscore, a blank, punctuation.
Pieces ==
    { <<"D","R","O","P">>, <<"d","e","l","e","t","e">>, <<"U","p","d","a","t","e">>,
      <<"I","N","S","E","R","T">>, <<"a","l","t","e","r">>, <<"C","r","e","a","t","e">>,
      <<"T","R","U","N","C","A","T","E">>, <<"g","r","a","n","t">>,
      <<"R","e","v","o","k","e">>,
      <<"d">>, <<"9">>, <<"_">>, <<" ">>, <<";">> }

RECURSIVE Flatten(_)
Flatten(ps) == IF ps = <<>> THEN <<>> ELSE Head(ps) \o Flatten(Tail(ps))

\* The queries made of at most MaxPieces pieces.
AllQueries == UNION { { Flatten(ps) : ps \in [1..n -> Pieces] } : n \in 1..MaxPieces }

\* "d;", "DROP d", "Updated_", "9 grant"
ProtocolQueries ==
    { <<"d", ";">>,
      <<"D","R","O","P"," ","d">>,
      <<"U","p","d","a","t","e","d","_">>,
      <<"9"," ","g","r","a","n","t">> }

\* Some other account's address, the address of the client's own signing
\* key, and a string that is no address.
CallerAddresses == { Addr("1"), AgentKey.address, <<"0", "x", "1", "2", "3">> }

Clients ==
    { [ gatewayUrl |-> "https://gateway", providerId |-> "provider-1",
        apiKey |-> "api-key", wallet |-> w ] : w \in { None, Some(AgentKey) } }

CallIds == { "call" }

----------------------------------------------------------------------------
\* executeQuery.

\* The terminal position a returned QueryResult stands for.
Outcome(r) ==
    IF r.success THEN "SETTLED"
    ELSE IF IsSome(r.paymentRequired) THEN "AWAITING_MANUAL_PAYMENT"
    ELSE "FAILED"

Goto(c, position) ==
    /\ pc' = [pc EXCEPT ![c] = position]
    /\ trail' = [trail EXCEPT ![c] = Append(@, position)]

\* executeQuery completes with o: return o, or the promise rejects with o
\* when o is an exception no catch block took.
Return(c, o) ==
    /\ Goto(c, IF IsThrown(o) THEN "FAULTED" ELSE Outcome(o))
    /\ result' = [result EXCEPT ![c] = Some(o)]

\* initialResponse.status === 402
IsChallenge(response) == response.status = 402

\* Mutant of ChallengeResult: the empty list is looked for before the wallet.
ChallengeResultEmptyListFirst(wallet, body) ==
    CASE body.kind = "nonjson" -> Some(Throw(JsonSyntaxError))
      [] body.kind = "null" -> Some(Throw(ReadOfNull("accepts")))
      [] body.kind = "object" /\ body.accepts = None ->
            Some(Throw(ReadOfUndefined("0")))
      [] body.kind = "object" /\ body.accepts = Some(<<>>) ->
            Some(ErrorResult(NoRequirementError))
      [] OTHER ->
            IF wallet = None THEN Some(PaymentRequiredResult(body)) ELSE None

\* Mutant of ChallengeResult: an empty list is handed back as payment required.
ChallengeResultEmptyListUnchecked(wallet, body) ==
    CASE body.kind = "nonjson" -> Some(Throw(JsonSyntaxError))
      [] body.kind # "nonjson" /\ wallet = None -> Some(PaymentRequiredResult(body))
      [] wallet # None /\ body.kind = "null" -> Some(Throw(ReadOfNull("accepts")))
      [] wallet # None /\ body.kind = "object" /\ body.accepts = None ->
            Some(Throw(ReadOfUndefined("0")))
      [] wallet # None /\ body.kind = "object" /\ body.accepts = Some(<<>>) ->
            Some(PaymentRequiredResult(body))
      [] OTHER -> None

\* Mutant of ChallengeResult: the wallet is not looked at before signing.
ChallengeResultWalletUnchecked(wallet, body) ==
    CASE body.kind = "nonjson" -> Some(Throw(JsonSyntaxError))
      [] body.kind = "null" -> Some(Throw(ReadOfNull("accepts")))
      [] body.kind = "object" /\ body.accepts = None ->
            Some(Throw(ReadOfUndefined("0")))
      [] body.kind = "object" /\ body.accepts = Some(<<>>) ->
            Some(ErrorResult(NoRequirementError))
      [] OTHER -> None

\* Lines 235-254: what executeQuery returns or throws on a challenge before
\* signing; None when it goes on to call signAuthorization with the first
\* requirement.
ChallengeResult(wallet, body) ==
    CASE body.kind = "nonjson" -> Some(Throw(JsonSyntaxError))
      [] body.kind # "nonjson" /\ wallet = None -> Some(PaymentRequiredResult(body))
      [] wallet # None /\ body.kind = "null" -> Some(Throw(ReadOfNull("accepts")))
      [] wallet # None /\ body.kind = "object" /\ body.accepts = None ->
            Some(Throw(ReadOfUndefined("0")))
      [] wallet # None /\ body.kind = "object" /\ body.accepts = Some(<<>>) ->
            Some(ErrorResult(NoRequirementError))
      [] OTHER -> None

\* executeQuery is called with a query and a caller address.
Call(c, queries, addresses) ==
    /\ pc[c] = "idle"
    /\ \E q \in queries, w \in addresses :
        /\ query' = [query EXCEPT ![c] = q]
        /\ agentWallet' = [agentWallet EXCEPT ![c] = w]
    /\ Goto(c, "VALIDATED")
    /\ UNCHANGED <<server, tool, client, requests, replies, signed, result>>

\* Lines 208-231: validateQuery, then the first fetch.
Validate(c) ==
    /\ pc[c] = "VALIDATED"
    /\ IF IsSome(validateQuery(query[c]))
       THEN /\ Return(c, CatchValidation(Throw(Val(validateQuery(query[c])))))
            /\ UNCHANGED requests
       ELSE /\ requests' = [requests EXCEPT ![c] = Append(@, Request(c, None))]
            /\ Goto(c, "ATTEMPTED")
            /\ UNCHANGED result
    /\ UNCHANGED <<server, tool, client, query, agentWallet, replies, signed>>

\* Lines 233-234, 308-327: the first fetch resolves with a response.
FirstResponse(c, responses) ==
    /\ pc[c] = "ATTEMPTED"
    /\ \E r \in responses :
        /\ replies' = [replies EXCEPT ![c] = Append(@, r)]
        /\ IF IsChallenge(r)
           THEN Goto(c, "CHALLENGED") /\ UNCHANGED result
           ELSE IF Ok(r)
                THEN Return(c, Catch(InitialSuccessResult(r)))
                ELSE Return(c, Catch(GatewayErrorResult(r)))
    /\ UNCHANGED <<server, tool, client, query, agentWallet, requests, signed>>

\* Lines 328-333: the first fetch rejects.
FirstReject(c, rejections) ==
    /\ pc[c] = "ATTEMPTED"
    /\ \E r \in rejections :
        /\ replies' = [replies EXCEPT ![c] = Append(@, r)]
        /\ Return(c, Catch(Throw(r.message)))
    /\ UNCHANGED <<server, tool, client, query, agentWallet, requests, signed>>

\* Lines 235-256: the challenge is parsed and, with a wallet, its first
\* requirement signed.
HandleChallenge(c, times, nonces) ==
    /\ pc[c] = "CHALLENGED"
    /\ LET body == replies[c][1].body
           early == ChallengeResult(client.wallet, body)
       IN  IF IsSome(early)
           THEN Return(c, Catch(Val(early))) /\ UNCHANGED signed
           ELSE \E now \in times, nonce \in nonces :
                    LET xPayment ==
                            signAuthorization(client.wallet,
                                              SelectRequirement(Val(body.accepts)),
                                              agentWallet[c], now, nonce)
                    IN  IF IsThrown(xPayment)
                        THEN Return(c, Catch(xPayment)) /\ UNCHANGED signed
                        ELSE /\ signed' = [signed EXCEPT ![c] = Append(@, xPayment)]
                             /\ Goto(c, "SIGNED")
                             /\ UNCHANGED result
    /\ UNCHANGED <<server, tool, client, query, agentWallet, requests, replies>>

\* Mutant of Retry: the header is the one the client signed last, for
\* whichever call.
RetryLastSigned(c) ==
    /\ pc[c] = "SIGNED"
    /\ \E d \in DOMAIN pc :
        /\ signed[d] # <<>>
        /\ requests' = [requests EXCEPT ![c] =
                Append(@, Request(c, Some(EncodeHeader(signed[d][Len(signed[d])]))))]
    /\ Goto(c, "RETRIED")
    /\ UNCHANGED <<server, tool, client, query, agentWallet, replies, signed, result>>

\* Mutant of Retry: the retry names the signer as the agent wallet.
RetryForSigner(c) ==
    /\ pc[c] = "SIGNED"
    /\ requests' = [requests EXCEPT ![c] =
            Append(@, [Request(c, Some(EncodeHeader(signed[c][Len(signed[c])])))
                          EXCEPT !.body.agentWallet = Val(client.wallet).address])]
    /\ Goto(c, "RETRIED")
    /\ UNCHANGED <<server, tool, client, query, agentWallet, replies, signed, result>>

\* Lines 257-272: the retry carries the signed payload in X-PAYMENT.
Retry(c) ==
    /\ pc[c] = "SIGNED"
    /\ requests' = [requests EXCEPT ![c] =
            Append(@, Request(c, Some(EncodeHeader(signed[c][Len(signed[c])]))))]
    /\ Goto(c, "RETRIED")
    /\ UNCHANGED <<server, tool, client, query, agentWallet, replies, signed, result>>

\* Mutant of SecondResponse: a 402 on the retry is taken as a new challenge.
SecondResponseRechallenge(c, responses) ==
    /\ pc[c] = "RETRIED"
    /\ \E r \in responses :
        /\ replies' = [replies EXCEPT ![c] = Append(@, r)]
        /\ IF IsChallenge(r)
           THEN Goto(c, "CHALLENGED") /\ UNCHANGED result
           ELSE IF Ok(r)
                THEN Return(c, Catch(PaymentSuccessResult(r)))
                ELSE Return(c, Catch(PaymentErrorResult(r)))
    /\ UNCHANGED <<server, tool, client, query, agentWallet, requests, signed>>

\* Lines 274-305: the retry resolves with a response.
SecondResponse(c, responses) ==
    /\ pc[c] = "RETRIED"
    /\ \E r \in responses :
        /\ replies' = [replies EXCEPT ![c] = Append(@, r)]
        /\ IF Ok(r)
           THEN Return(c, Catch(PaymentSuccessResult(r)))
           ELSE Return(c, Catch(PaymentErrorResult(r)))
    /\ UNCHANGED <<server, tool, client, query, agentWallet, requests, signed>>

\* Mutant of SecondReject: a retry that rejects is sent once more.
SecondRejectResent(c, rejections) ==
    /\ pc[c] = "RETRIED"
    /\ \E r \in rejections :
        /\ replies' = [replies EXCEPT ![c] = Append(@, r)]
        /\ requests' = [requests EXCEPT ![c] = Append(@, requests[c][Len(requests[c])])]
    /\ Goto(c, "RETRIED")
    /\ UNCHANGED <<server, tool, client, query, agentWallet, signed, result>>

\* Lines 328-333: the retry rejects.
SecondReject(c, rejections) ==
    /\ pc[c] = "RETRIED"
    /\ \E r \in rejections :
        /\ replies' = [replies EXCEPT ![c] = Append(@, r)]
        /\ Return(c, Catch(Throw(r.message)))
    /\ UNCHANGED <<server, tool, client, query, agentWallet, requests, signed>>

----------------------------------------------------------------------------
\* The constructor, and the server's start (index.ts).

\* X402Config: a missing or empty string is "", agentPrivateKey is optional.
Config(gatewayUrl, providerId, apiKey, agentPrivateKey) ==
    [ gatewayUrl |-> gatewayUrl, providerId |-> providerId, apiKey |-> apiKey,
      agentPrivateKey |-> agentPrivateKey ]

ValidPrivateKey == "0x" \o "key-a"

InvalidPrivateKeyError == "invalid private key"

\* The fields of a client no constructor has filled.
NoClient ==
    [ gatewayUrl |-> "", providerId |-> "", apiKey |-> "", wallet |-> None ]

\* Mutant of constructor: apiKey is looked at first.
constructorApiKeyFirst(config) ==
    IF config.apiKey = "" THEN Throw("apiKey is required")
    ELSE IF config.gatewayUrl = "" THEN Throw("gatewayUrl is required")
    ELSE IF config.providerId = "" THEN Throw("providerId is required")
    ELSE IF IsSome(config.agentPrivateKey) /\ Val(config.agentPrivateKey) # ""
            /\ Val(config.agentPrivateKey) # ValidPrivateKey
    THEN Throw(InvalidPrivateKeyError)
    ELSE [ gatewayUrl |-> config.gatewayUrl, providerId |-> config.providerId,
           apiKey |-> config.apiKey,
           wallet |-> IF IsSome(config.agentPrivateKey)
                         /\ Val(config.agentPrivateKey) # ""
                      THEN Some(AgentKey) ELSE None ]

\* new X402Client(config): the client, or the Error thrown.  new Wallet(key)
\* throws on a string that is no private key.
constructor(config) ==
    IF config.gatewayUrl = "" THEN Throw("gatewayUrl is required")
    ELSE IF config.providerId = "" THEN Throw("providerId is required")
    ELSE IF config.apiKey = "" THEN Throw("apiKey is required")
    ELSE IF IsSome(config.agentPrivateKey) /\ Val(config.agentPrivateKey) # ""
            /\ Val(config.agentPrivateKey) # ValidPrivateKey
    THEN Throw(InvalidPrivateKeyError)
    ELSE [ gatewayUrl |-> config.gatewayUrl, providerId |-> config.providerId,
           apiKey |-> config.apiKey,
           wallet |-> IF IsSome(config.agentPrivateKey)
                         /\ Val(config.agentPrivateKey) # ""
                      THEN Some(AgentKey) ELSE None ]

\* process.env as index.ts reads it: an unset variable is "" (None for
\* AGENT_PRIVATE_KEY).
Env(gatewayUrl, providerId, apiKey, providerWallet, agentPrivateKey) ==
    [ X402_GATEWAY_URL |-> gatewayUrl, X402_PROVIDER_ID |-> providerId,
      X402_API_KEY |-> apiKey, PROVIDER_WALLET_ADDRESS |-> providerWallet,
      AGENT_PRIVATE_KEY |-> agentPrivateKey ]

\* index.ts lines 21-27: a required variable is missing.
MissingRequiredEnv(env) ==
    \/ env.X402_GATEWAY_URL = ""
    \/ env.X402_PROVIDER_ID = ""
    \/ env.X402_API_KEY = ""
    \/ env.PROVIDER_WALLET_ADDRESS = ""

\* index.ts lines 30-34: the configuration the server hands to the constructor.
ServerConfig(env) ==
    Config(env.X402_GATEWAY_URL, env.X402_PROVIDER_ID, env.X402_API_KEY, None)

Envs ==
    { Env(g, p, k, w, a) :
        g \in { "", "https://gateway" }, p \in { "", "provider-1" },
        k \in { "", "api-key" }, w \in { "", "0xprovider" },
        a \in { None, Some(ValidPrivateKey) } }

Configs ==
    { Config(g, p, k, a) :
        g \in { "", "https://gateway" }, p \in { "", "provider-1" },
        k \in { "", "api-key" },
        a \in { None, Some(""), Some(ValidPrivateKey), Some("garbage") } }

\* No client yet: neither the server nor a caller of the class has run.
Starting == [ pc |-> "starting", launch |-> "", env |-> None, config |-> None,
              error |-> None ]

\* new X402Client(config) has returned the client.
Constructed == [ pc |-> "running", launch |-> "direct", env |-> None,
                 config |-> None, error |-> None ]

\* new X402Client(config) with config, for the launch of this kind.
Construct(launch, env, config) ==
    LET made == constructor(config)
    IN  IF IsThrown(made)
        THEN /\ server' = [ pc |-> "failed", launch |-> launch, env |-> env,
                            config |-> Some(config), error |-> Some(made.thrown) ]
             /\ UNCHANGED client
        ELSE /\ server' = [ pc |-> "running", launch |-> launch, env |-> env,
                            config |-> Some(config), error |-> None ]
             /\ client' = made

\* index.ts lines 17-39: the server starts with an environment.
StartServer(envs) ==
    /\ server.pc = "starting"
    /\ \E env \in envs :
        IF MissingRequiredEnv(env)
        THEN /\ server' = [ pc |-> "exited", launch |-> "server", env |-> Some(env),
                            config |-> None, error |-> None ]
             /\ UNCHANGED client
        ELSE Construct("server", Some(env), ServerConfig(env))
    /\ UNCHANGED <<pc, query, agentWallet, requests, replies, signed, result, trail, tool>>

\* A program constructs the client itself: new X402Client(config).
NewClient(configs) ==
    /\ server.pc = "starting"
    /\ \E config \in configs : Construct("direct", None, config)
    /\ UNCHANGED <<pc, query, agentWallet, requests, replies, signed, result, trail, tool>>

----------------------------------------------------------------------------
\* The execute_query tool handler (tools/execute-query.ts).

\* The handler has not been called.
IdleTool == [ pc |-> "idle", input |-> None, response |-> None ]

\* ExecuteQueryResult values.
EmptyToolResult ==
    [ success |-> FALSE, data |-> None, paymentRequired |-> None,
      paymentRequirements |-> None, estimatedCost |-> None, message |-> None,
      error |-> None ]

ToolError(message) == [EmptyToolResult EXCEPT !.error = Some(message)]

\* /^0x[a-fA-F0-9]{40}$/.test(address)
validateWalletAddress(address) ==
    /\ Len(address) = 2 + AddressHexLen
    /\ address[1] = "0"
    /\ address[2] = "x"
    /\ \A i \in 3..Len(address) : address[i] \in HexChars

InvalidAddressError ==
    "Invalid wallet address format. Must be a valid Ethereum address (0x + 40 hex characters)"

\* Mutant of ValidateInput: the inputs are not trimmed before the empty test.
ValidateInputUntrimmed(input) ==
    IF input.query = <<>> THEN Some("query is required")
    ELSE IF input.walletAddress = <<>> THEN Some("wallet address is required")
    ELSE IF ~validateWalletAddress(input.walletAddress)
    THEN Some(InvalidAddressError)
    ELSE None

\* Lines 57-76: the error the handler returns for its input, None when it goes
\* on to client.executeQuery.
ValidateInput(input) ==
    IF input.query = <<>> \/ trim(input.query) = <<>>
    THEN Some("query is required")
    ELSE IF input.walletAddress = <<>> \/ trim(input.walletAddress) = <<>>
    THEN Some("wallet address is required")
    ELSE IF ~validateWalletAddress(input.walletAddress)
    THEN Some(InvalidAddressError)
    ELSE None

\* parseFloat of the cost strings the gateway's bodies carry, in millionths.
ParseFloatMicros(text) ==
    CASE text = "0.000050" -> 50
      [] text = "0.000060" -> 60
      [] text = "0" -> 0

\* (micros / 1000000).toFixed(6), for less than one unit.
ToFixed6(micros) ==
    "0." \o (CASE micros < 10 -> "00000"
               [] micros >= 10 /\ micros < 100 -> "0000"
               [] micros >= 100 /\ micros < 1000 -> "000"
               [] micros >= 1000 /\ micros < 10000 -> "00"
               [] micros >= 10000 /\ micros < 100000 -> "0"
               [] OTHER -> "")
         \o ToString(micros)

\* `${result.rowCount}`
RowCountText(rowCount) ==
    IF IsSome(rowCount) THEN ToString(Val(rowCount)) ELSE "undefined"

\* Lines 83-91: the summary of a successful result.
Summary(r) ==
    "Query returned " \o RowCountText(r.rowCount) \o " rows. Cost: $"
    \o ToFixed6(ParseFloatMicros(IF IsSome(r.actualCost) /\ Val(r.actualCost) # ""
                                 THEN Val(r.actualCost) ELSE "0"))
    \o (IF r.paymentSource = Some("credit")
        THEN " (paid with credit from previous failed query)"
        ELSE IF IsSome(r.settlement)
        THEN " (settlement: " \o Val(r.settlement).transaction \o ")"
        ELSE "")

\* Lines 82-104: the handler's result for a successful QueryResult; cost is
\* in millionths.
ToolSuccess(r) ==
    [EmptyToolResult EXCEPT
        !.success = TRUE,
        !.data = Some([ rows |-> IF IsSome(r.rows) THEN Val(r.rows) ELSE <<>>,
                        rowCount |-> IF IsSome(r.rowCount) THEN Val(r.rowCount) ELSE 0,
                        cost |-> ParseFloatMicros(
                                    IF IsSome(r.actualCost) /\ Val(r.actualCost) # ""
                                    THEN Val(r.actualCost) ELSE "0"),
                        summary |-> Summary(r),
                        settlement |-> r.settlement,
                        paymentSource |-> r.paymentSource ])]

DefaultPaymentMessage ==
    "Payment required to execute this query. Estimated cost: $" \o ToFixed6(0)

\* Lines 107-127: the handler's result for a QueryResult that asks for
\* payment; the requirements of the model carry no extra, so the estimated
\* cost is 0 and no credit is mentioned.
ToolPaymentRequired(r) ==
    LET paymentReq == Val(r.paymentRequirements)
    IN  IF paymentReq.accepts = None
        THEN Throw(ReadOfUndefined("0"))
        ELSE [EmptyToolResult EXCEPT
                !.paymentRequired = Some(TRUE),
                !.paymentRequirements = r.paymentRequirements,
                !.estimatedCost = Some(0),
                !.message = IF IsSome(r.message) /\ Val(r.message) # ""
                            THEN r.message ELSE Some(DefaultPaymentMessage)]

\* Mutant of HandlerResult: the paymentRequired flag alone selects the
\* payment branch, and what the client returned with it is handed on.
HandlerResultFlagOnly(o) ==
    IF IsThrown(o) THEN o
    ELSE IF o.success THEN ToolSuccess(o)
    ELSE IF o.paymentRequired = Some(TRUE)
    THEN [EmptyToolResult EXCEPT
            !.paymentRequired = Some(TRUE),
            !.paymentRequirements = o.paymentRequirements,
            !.estimatedCost = Some(0),
            !.message = IF IsSome(o.message) /\ Val(o.message) # ""
                        THEN o.message ELSE Some(DefaultPaymentMessage)]
    ELSE ToolError(IF IsSome(o.error) /\ Val(o.error) # ""
                   THEN Val(o.error) ELSE "Unknown error occurred")

\* Lines 79-133: what the handler makes of the settled client.executeQuery: a
\* rejection is thrown on by await.
HandlerResult(o) ==
    IF IsThrown(o) THEN o
    ELSE IF o.success THEN ToolSuccess(o)
    ELSE IF o.paymentRequired = Some(TRUE) /\ IsSome(o.paymentRequirements)
            /\ Val(o.paymentRequirements).kind = "object"
    THEN ToolPaymentRequired(o)
    ELSE ToolError(IF IsSome(o.error) /\ Val(o.error) # ""
                   THEN Val(o.error) ELSE "Unknown error occurred")

\* Mutant of CatchTool: the exception leaves the handler.
ToolUncaught(o) == o

\* Lines 134-139: catch (error) { return { success: false, error: error.message } }
CatchTool(o) == IF IsThrown(o) THEN ToolError(o.thrown) ELSE o

\* The handler completes with o: it returns o, or throws.
ToolReturn(c, input, o) ==
    tool' = [tool EXCEPT ![c] = [ pc |-> IF IsThrown(o) THEN "faulted" ELSE "returned",
                                   input |-> Some(input), response |-> Some(o) ]]

\* Lines 54-79: the handler is called with an input; it returns an error for
\* it or calls client.executeQuery(input.query, input.walletAddress).
ToolCall(c, inputs) ==
    /\ server.pc = "running"
    /\ tool[c].pc = "idle"
    /\ pc[c] = "idle"
    /\ \E input \in inputs :
        IF IsSome(ValidateInput(input))
        THEN /\ ToolReturn(c, input, CatchTool(ToolError(Val(ValidateInput(input)))))
             /\ UNCHANGED <<pc, trail, query, agentWallet>>
        ELSE /\ tool' = [tool EXCEPT ![c] = [ pc |-> "awaiting", input |-> Some(input),
                                               response |-> None ]]
             /\ query' = [query EXCEPT ![c] = input.query]
             /\ agentWallet' = [agentWallet EXCEPT ![c] = input.walletAddress]
             /\ Goto(c, "VALIDATED")
    /\ UNCHANGED <<server, client, requests, replies, signed, result>>

\* Lines 79-139: client.executeQuery has settled and the handler returns.
ToolRespond(c) ==
    /\ tool[c].pc = "awaiting"
    /\ pc[c] \in { "SETTLED", "FAILED", "AWAITING_MANUAL_PAYMENT", "FAULTED" }
    /\ ToolReturn(c, Val(tool[c].input), CatchTool(HandlerResult(Val(result[c]))))
    /\ UNCHANGED <<server, client, pc, query, agentWallet, requests, replies, signed,
                   result, trail>>

\* A client standing in for X402Client, as the handler's tests build it:
\* executeQuery resolves with a given QueryResult.
MockResolve(c, results) ==
    /\ tool[c].pc = "awaiting"
    /\ pc[c] = "VALIDATED"
    /\ \E r \in results : Return(c, r)
    /\ UNCHANGED <<server, tool, client, query, agentWallet, requests, replies, signed>>

\* ... or rejects with an Error.
MockReject(c, messages) ==
    /\ tool[c].pc = "awaiting"
    /\ pc[c] = "VALIDATED"
    /\ \E m \in messages : Return(c, Throw(m))
    /\ UNCHANGED <<server, tool, client, query, agentWallet, requests, replies, signed>>

----------------------------------------------------------------------------
\* Specifications.

Init ==
    /\ client \in Clients
    /\ pc = [c \in CallIds |-> "idle"]
    /\ query = [c \in CallIds |-> <<>>]
    /\ agentWallet = [c \in CallIds |-> <<>>]
    /\ requests = [c \in CallIds |-> <<>>]
    /\ replies = [c \in CallIds |-> <<>>]
    /\ signed = [c \in CallIds |-> <<>>]
    /\ result = [c \in CallIds |-> None]
    /\ trail = [c \in CallIds |-> <<>>]
    /\ server = Constructed
    /\ tool = [c \in CallIds |-> IdleTool]

\* The protocol against every gateway response, for a few queries.
Next ==
    \E c \in CallIds :
        \/ Call(c, ProtocolQueries, CallerAddresses)
        \/ Validate(c)
        \/ FirstResponse(c, Responses)
        \/ FirstReject(c, Rejections)
        \/ HandleChallenge(c, Times, Nonces)
        \/ Retry(c)
        \/ SecondResponse(c, Responses)
        \/ SecondReject(c, Rejections)

Spec == Init /\ [][Next]_vars

\* Every query of AllQueries, against a gateway that answers with a challenge.
ValidationResponses ==
    { Response(402, "Payment Required", ChallengeBody(1, "payment required", Some(<<ReqExact>>)), None) }

NextValidation ==
    \E c \in CallIds :
        \/ Call(c, AllQueries, { Addr("1") })
        \/ Validate(c)
        \/ FirstResponse(c, ValidationResponses)
        \/ FirstReject(c, Rejections)
        \/ HandleChallenge(c, { 1000 }, { "0x" \o "nonce-a" })
        \/ Retry(c)
        \/ SecondResponse(c, ValidationResponses)
        \/ SecondReject(c, Rejections)

SpecValidation == Init /\ [][NextValidation]_vars

\* Two executeQuery calls on one client, their steps interleaved in every
\* order (one after the other included).
ConcurrentCallIds == { "call", "other" }

ConcurrentQueries == { <<"d", ";">>, <<"D","R","O","P"," ","d">> }

ConcurrentResponses ==
    { Response(200, "OK", RowsBody("credit"), None),
      Response(200, "OK", RowsBody("payment"), Some(SettlementHeader)),
      Response(402, "Payment Required", ChallengeBody(1, "payment required", Some(<<ReqExact>>)), None),
      Response(500, "Internal Server Error", ErrorBody("boom"), None) }

InitConcurrent ==
    /\ client \in Clients
    /\ pc = [c \in ConcurrentCallIds |-> "idle"]
    /\ query = [c \in ConcurrentCallIds |-> <<>>]
    /\ agentWallet = [c \in ConcurrentCallIds |-> <<>>]
    /\ requests = [c \in ConcurrentCallIds |-> <<>>]
    /\ replies = [c \in ConcurrentCallIds |-> <<>>]
    /\ signed = [c \in ConcurrentCallIds |-> <<>>]
    /\ result = [c \in ConcurrentCallIds |-> None]
    /\ trail = [c \in ConcurrentCallIds |-> <<>>]
    /\ server = Constructed
    /\ tool = [c \in ConcurrentCallIds |-> IdleTool]

NextConcurrent ==
    \E c \in ConcurrentCallIds :
        \/ Call(c, ConcurrentQueries, { Addr("1") })
        \/ Validate(c)
        \/ FirstResponse(c, ConcurrentResponses)
        \/ FirstReject(c, Rejections)
        \/ HandleChallenge(c, { 1000 }, Nonces)
        \/ Retry(c)
        \/ SecondResponse(c, ConcurrentResponses)
        \/ SecondReject(c, Rejections)

SpecConcurrent == InitConcurrent /\ [][NextConcurrent]_vars

\* The tool handler over a client that resolves or rejects as its tests
\* make it.
ToolQueries ==
    { <<>>, <<" ">>, <<"d", ";">>, <<"D","R","O","P"," ","d">>,
      <<"U","p","d","a","t","e","d","_">> }

ToolWallets ==
    { <<>>, <<" ", " ">>, <<"0", "x", "1", "2", "3">>, <<" ">> \o Addr("1"),
      Addr("1"), Addr("a"), Addr("F") }

ToolInputs ==
    { [ query |-> q, walletAddress |-> w ] : q \in ToolQueries, w \in ToolWallets }

\* A settlement as X-PAYMENT-RESPONSE spells it.
MockSettlement == JsonParse(Base64Decode(SettlementHeader))

MockResults ==
    { ErrorResult("Gateway timeout"),
      EmptyResult,
      SuccessResult(RowsBody("payment"), Some(MockSettlement)),
      SuccessResult(RowsBody("credit"), Some(MockSettlement)),
      SuccessResult(RowsBody("credit"), None),
      SuccessResult(EmptyObjectBody, None),
      PaymentRequiredResult(ChallengeBody(1, "payment required", Some(<<ReqExact>>))),
      PaymentRequiredResult(ErrorBody("insufficient funds")),
      PaymentRequiredResult(ChallengeBody(1, "payment required", Some(<<>>))),
      PaymentRequiredResult(NullBody),
      [EmptyResult EXCEPT !.paymentRequired = Some(TRUE)] }

MockErrors == { "Network error" }

MockServer == [ pc |-> "running", launch |-> "mock", env |-> None,
                config |-> None, error |-> None ]

InitHandler ==
    /\ client = NoClient
    /\ pc = [c \in CallIds |-> "idle"]
    /\ query = [c \in CallIds |-> <<>>]
    /\ agentWallet = [c \in CallIds |-> <<>>]
    /\ requests = [c \in CallIds |-> <<>>]
    /\ replies = [c \in CallIds |-> <<>>]
    /\ signed = [c \in CallIds |-> <<>>]
    /\ result = [c \in CallIds |-> None]
    /\ trail = [c \in CallIds |-> <<>>]
    /\ server = MockServer
    /\ tool = [c \in CallIds |-> IdleTool]

NextHandler ==
    \E c \in CallIds :
        \/ ToolCall(c, ToolInputs)
        \/ MockResolve(c, MockResults)
        \/ MockReject(c, MockErrors)
        \/ ToolRespond(c)

SpecHandler == InitHandler /\ [][NextHandler]_vars

\* The server, or a program that constructs the client itself, and the tool
\* handler over the client constructed.
ServerToolInputs ==
    { [ query |-> q, walletAddress |-> w ] :
        q \in { <<"d", ";">>, <<"D","R","O","P"," ","d">> },
        w \in { Addr("1"), <<"0", "x", "1", "2", "3">> } }

InitServer ==
    /\ client = NoClient
    /\ pc = [c \in CallIds |-> "idle"]
    /\ query = [c \in CallIds |-> <<>>]
    /\ agentWallet = [c \in CallIds |-> <<>>]
    /\ requests = [c \in CallIds |-> <<>>]
    /\ replies = [c \in CallIds |-> <<>>]
    /\ signed = [c \in CallIds |-> <<>>]
    /\ result = [c \in CallIds |-> None]
    /\ trail = [c \in CallIds |-> <<>>]
    /\ server = Starting
    /\ tool = [c \in CallIds |-> IdleTool]

NextServer ==
    \/ StartServer(Envs)
    \/ NewClient(Configs)
    \/ \E c \in CallIds :
        \/ ToolCall(c, ServerToolInputs)
        \/ Validate(c)
        \/ FirstResponse(c, ConcurrentResponses)
        \/ FirstReject(c, Rejections)
        \/ HandleChallenge(c, { 1000 }, { "0x" \o "nonce-a" })
        \/ Retry(c)
        \/ SecondResponse(c, ConcurrentResponses)
        \/ SecondReject(c, Rejections)
        \/ ToolRespond(c)

SpecServer == InitServer /\ [][NextServer]_vars

----------------------------------------------------------------------------
\* Properties.

Terminal == { "SETTLED", "FAILED", "AWAITING_MANUAL_PAYMENT" }

\* The identifiers of q: its maximal runs of word characters, upper-cased.
Identifiers(q) ==
    LET starts == { i \in DOMAIN q : IsWordChar(q[i]) /\ (i = 1 \/ ~IsWordChar(q[i - 1])) }
        end(i) == CHOOSE j \in i..Len(q) :
                        /\ \A k \in i..j : IsWordChar(q[k])
                        /\ (j = Len(q) \/ ~IsWordChar(q[j + 1]))
    IN  { toUpperCase(SubSeq(q, i, end(i))) : i \in starts }

\* word occurs in identifier t and is not all of it.
ProperPartOf(word, t) ==
    /\ Len(t) > Len(word)
    /\ \E a \in 1..(Len(t) - Len(word) + 1) : SubSeq(t, a, a + Len(word) - 1) = word

\* The forbidden operations that stand in q as a whole word, in any letter case.
ForbiddenWords(q) ==
    LET ids == Identifiers(q)
    IN  { k \in DOMAIN FORBIDDEN_OPERATIONS : OperationChars[k] \in ids }

\* The forbidden operations that occur in q inside a larger identifier.
ForbiddenInsideIdentifier(q) ==
    LET ids == Identifiers(q)
    IN  { k \in DOMAIN FORBIDDEN_OPERATIONS :
            \E t \in ids : ProperPartOf(OperationChars[k], t) }

C2_SubstringOfIdentifierAccepted ==
    \A c \in CallIds :
        (pc[c] # "idle" /\ ForbiddenWords(query[c]) = {}
            /\ ForbiddenInsideIdentifier(query[c]) # {}) =>
            /\ validateQuery(query[c]) = None
            /\ pc[c] # "VALIDATED" => requests[c] # <<>>

\* "Update" followed by word characters went out to the gateway.
C2_Witness ==
    \E c \in CallIds :
        /\ pc[c] = "ATTEMPTED"
        /\ Len(requests[c]) = 1
        /\ ForbiddenWords(query[c]) = {}
        /\ 3 \in ForbiddenInsideIdentifier(query[c])

\* The QueryResult invariant of the data model.
WellFormedResult(r) ==
    \/ r.success /\ IsSome(r.rows)
    \/ /\ ~r.success
       /\ (r.paymentRequired = Some(TRUE) /\ IsSome(r.paymentRequirements)
              /\ Val(r.paymentRequirements).kind = "object")
          # IsSome(r.error)

\* C3: every QueryResult returned is success=true with rows present, or
\* success=false with exactly one of {paymentRequired and paymentRequirements,
\* error} populated.
C3_ResultInvariant ==
    \A c \in CallIds : IsSome(result[c]) => WellFormedResult(Val(result[c]))

\* The transitions the state machine of section 4.4 lists.
ListedTransitions ==
    { <<"VALIDATED", "ATTEMPTED">>,
      <<"ATTEMPTED", "SETTLED">>, <<"ATTEMPTED", "CHALLENGED">>, <<"ATTEMPTED", "FAILED">>,
      <<"CHALLENGED", "SIGNED">>, <<"SIGNED", "RETRIED">>,
      <<"RETRIED", "SETTLED">>, <<"RETRIED", "FAILED">>,
      <<"CHALLENGED", "AWAITING_MANUAL_PAYMENT">> }

\* A call starts in VALIDATED and moves only along the given transitions;
\* AWAITING_MANUAL_PAYMENT is entered only without a signing key.
MovesAlong(transitions) ==
    \A c \in CallIds :
        /\ trail[c] # <<>> => trail[c][1] = "VALIDATED"
        /\ \A i \in 1..(Len(trail[c]) - 1) : <<trail[c][i], trail[c][i + 1]>> \in transitions
        /\ pc[c] = "AWAITING_MANUAL_PAYMENT" => client.wallet = None

\* C4 as stated: a call moves only along the listed transitions.
C4_OnlyListedTransitions == MovesAlong(ListedTransitions)

\* C4, amended: a call moves only along the listed transitions and
\* VALIDATED -> FAILED (the query fails validation) and CHALLENGED -> FAILED
\* (challenge body unusable, accepts empty, or signing fails); SIGNED is
\* entered only from CHALLENGED, RETRIED only from SIGNED, and SETTLED, FAILED
\* and AWAITING_MANUAL_PAYMENT are left by no transition.
C4_Transitions ==
    MovesAlong(ListedTransitions
                \cup { <<"VALIDATED", "FAILED">>, <<"CHALLENGED", "FAILED">> })

\* A call that failed at the challenge with a signing key configured.
C4_Witness ==
    \E c \in CallIds :
        /\ trail[c] = <<"VALIDATED", "ATTEMPTED", "CHALLENGED", "FAILED">>
        /\ client.wallet # None

\* C5: a call issues at most two requests, never one while another is in
\* flight, and the second only after the first came back as a 402 response.
C5_AtMostTwoSequentialRequests ==
    \A c \in CallIds :
        /\ Len(requests[c]) <= 2
        /\ Len(replies[c]) <= Len(requests[c])
        /\ Len(requests[c]) <= Len(replies[c]) + 1
        /\ Len(requests[c]) = 2 =>
            /\ Len(replies[c]) >= 1
            /\ replies[c][1].kind = "response"
            /\ replies[c][1].status = 402

\* Both requests were sent and both came back.
C5_Witness ==
    \E c \in CallIds : Len(requests[c]) = 2 /\ Len(replies[c]) = 2

\* The first reply of call c is a response with this status.
FirstStatus(c, status) ==
    /\ replies[c] # <<>>
    /\ replies[c][1].kind = "response"
    /\ replies[c][1].status = status

FirstBody(c) == replies[c][1].body

\* r carries the rowCount and the cost fields of body.
CarriesCountAndCost(r, body) ==
    /\ r.rowCount = body.rowCount
    /\ r.estimatedCost = body.estimatedCost
    /\ r.actualCost = body.actualCost

\* C6 as stated: after a 200 on the first attempt nothing is signed, no
\* second request is sent and the result is success=true with the body's
\* rowCount and cost fields.
C6_FirstOkAlwaysSucceeds ==
    \A c \in CallIds :
        FirstStatus(c, 200) =>
            /\ signed[c] = <<>>
            /\ Len(requests[c]) = 1
            /\ IsSome(result[c])
            /\ Val(result[c]).success
            /\ CarriesCountAndCost(Val(result[c]), FirstBody(c))

\* C6, amended: after a 200 on the first attempt nothing is signed and no
\* second request is sent; when the body is a JSON value other than null the
\* result is success=true with the body's rowCount and cost fields, and
\* otherwise success=false with an error.
C6_FirstOk ==
    \A c \in CallIds :
        FirstStatus(c, 200) =>
            /\ signed[c] = <<>>
            /\ Len(requests[c]) = 1
            /\ IsSome(result[c])
            /\ IF FirstBody(c).kind = "object"
               THEN /\ pc[c] = "SETTLED"
                    /\ Val(result[c]).success
                    /\ CarriesCountAndCost(Val(result[c]), FirstBody(c))
               ELSE /\ pc[c] = "FAILED"
                    /\ ~Val(result[c]).success
                    /\ IsSome(Val(result[c]).error)

\* The scenario of section 8: 200 with rowCount 5 and actualCost 0.000050.
C6_Witness ==
    \E c \in CallIds :
        /\ FirstStatus(c, 200)
        /\ pc[c] = "SETTLED"
        /\ Val(result[c]).rowCount = Some(5)
        /\ Val(result[c]).actualCost = Some("0.000050")
        /\ Val(result[c]).estimatedCost = Some("0.000060")

\* The result of AWAITING_MANUAL_PAYMENT: the requirements response as
\* received, and a message.
ManualPaymentReturned(c) ==
    /\ pc[c] = "AWAITING_MANUAL_PAYMENT"
    /\ IsSome(result[c])
    /\ ~Val(result[c]).success
    /\ Val(result[c]).paymentRequired = Some(TRUE)
    /\ Val(result[c]).paymentRequirements = Some(FirstBody(c))
    /\ IsSome(Val(result[c]).message)
    /\ Val(result[c]).error = None

\* C7 as stated: a 402 on the first attempt without a signing key ends in
\* AWAITING_MANUAL_PAYMENT with the requirements as received and a message,
\* nothing signed, no second request.
C7_ChallengeWithoutKeyAlwaysAwaits ==
    \A c \in CallIds :
        (FirstStatus(c, 402) /\ client.wallet = None) =>
            /\ signed[c] = <<>>
            /\ Len(requests[c]) = 1
            /\ pc[c] # "CHALLENGED" => ManualPaymentReturned(c)

\* C7, amended: a 402 on the first attempt whose body parses as JSON, without
\* a signing key, ends in AWAITING_MANUAL_PAYMENT with the requirements as
\* received and a message; a 402 whose body does not parse ends FAILED; in
\* both cases nothing is signed and no second request is sent.
C7_ChallengeWithoutKey ==
    \A c \in CallIds :
        (FirstStatus(c, 402) /\ client.wallet = None) =>
            /\ signed[c] = <<>>
            /\ Len(requests[c]) = 1
            /\ pc[c] # "CHALLENGED" =>
                IF FirstBody(c).kind # "nonjson"
                THEN ManualPaymentReturned(c)
                ELSE /\ pc[c] = "FAILED"
                     /\ ~Val(result[c]).success
                     /\ IsSome(Val(result[c]).error)
                     /\ Val(result[c]).paymentRequired = None

\* A list of two requirements came back to the caller unchanged.
C7_Witness ==
    \E c \in CallIds :
        /\ client.wallet = None
        /\ ManualPaymentReturned(c)
        /\ Val(result[c]).paymentRequirements
              = Some(ChallengeBody(2, "", Some(<<ReqUpto, ReqExact>>)))

\* The challenge of call c lists at least one requirement, a signing key is
\* configured, and the challenge has been handled.
ChallengeWithKeyHandled(c) ==
    /\ FirstStatus(c, 402)
    /\ client.wallet # None
    /\ pc[c] # "CHALLENGED"
    /\ FirstBody(c).kind = "object"
    /\ IsSome(FirstBody(c).accepts)
    /\ Len(Val(FirstBody(c).accepts)) >= 1

\* The X-PAYMENT header x is built from requirement req for caller from.
BuiltFrom(x, req, from) ==
    /\ x.scheme = req.scheme
    /\ x.network = req.network
    /\ x.payload.authorization.from = from
    /\ x.payload.authorization.to = req.payTo
    /\ x.payload.authorization.value = req.maxAmountRequired

EmptyChallengeWithKey(c) ==
    /\ FirstStatus(c, 402)
    /\ client.wallet # None
    /\ FirstBody(c).kind = "object"
    /\ FirstBody(c).accepts = Some(<<>>)

\* C9: a 402 with an empty accepts list, with a signing key, ends FAILED with
\* the error "No payment requirement returned from gateway", nothing signed
\* and no second request.
C9_EmptyAcceptsFails ==
    \A c \in CallIds :
        EmptyChallengeWithKey(c) =>
            /\ signed[c] = <<>>
            /\ Len(requests[c]) = 1
            /\ pc[c] \in { "CHALLENGED", "FAILED" }
            /\ pc[c] = "FAILED" =>
                /\ IsSome(result[c])
                /\ ~Val(result[c]).success
                /\ Val(result[c]).error = Some("No payment requirement returned from gateway")
                /\ Val(result[c]).paymentRequired = None

C9_Witness ==
    \E c \in CallIds : EmptyChallengeWithKey(c) /\ pc[c] = "FAILED"

\* Both attempts of call c came back as 402 responses.
RejectedTwice(c) ==
    /\ FirstStatus(c, 402)
    /\ Len(replies[c]) >= 2
    /\ replies[c][2].kind = "response"
    /\ replies[c][2].status = 402

C11_TransportFailureFails ==
    \A c \in CallIds :
        \A i \in DOMAIN replies[c] :
            replies[c][i].kind = "reject" =>
                /\ i = Len(replies[c])
                /\ Len(requests[c]) = i
                /\ pc[c] = "FAILED"
                /\ IsSome(result[c])
                /\ ~Val(result[c]).success
                /\ Val(result[c]).error = Some(replies[c][i].message)
                /\ Val(result[c]).paymentRequired = None

\* The retry was sent and its fetch rejected.
C11_Witness ==
    \E c \in CallIds :
        /\ Len(replies[c]) = 2
        /\ replies[c][2].kind = "reject"
        /\ Len(requests[c]) = 2
        /\ Val(result[c]).error = Some("fetch failed")

C13_NeverSignsWithoutWallet ==
    \A c \in CallIds :
        /\ signed[c] # <<>> => client.wallet # None
        /\ pc[c] \in { "SIGNED", "RETRIED" } => client.wallet # None
        /\ IsSome(result[c]) => Val(result[c]).error # Some(WalletNotConfiguredError)
        /\ (client.wallet = None /\ FirstStatus(c, 402)) =>
              pc[c] \in { "CHALLENGED", "AWAITING_MANUAL_PAYMENT", "FAILED" }

\* Without a wallet, a challenge with a requirement in it was handled.
C13_Witness ==
    \E c \in CallIds :
        /\ client.wallet = None
        /\ FirstStatus(c, 402)
        /\ FirstBody(c).accepts = Some(<<ReqExact>>)
        /\ pc[c] = "AWAITING_MANUAL_PAYMENT"
        /\ signed[c] = <<>>

\* C14: a call whose caller address is not 0x followed by 40 hex characters
\* is rejected with an error and sends no request.
C14_InvalidAddressRejectedBeforeFetch ==
    \A c \in CallIds :
        (pc[c] # "idle" /\ ~IsHexAddress(agentWallet[c])) =>
            /\ requests[c] = <<>>
            /\ pc[c] \in { "VALIDATED", "FAILED" }

\* The requirement call c handed to signAuthorization.
SignedRequirement(c) == SelectRequirement(Val(FirstBody(c).accepts))

\* C15: every authorization signAuthorization produced has from = the caller
\* address, to = the requirement's payTo, value = the requirement's
\* maxAmountRequired (the same string), validAfter = "0" and validBefore =
\* the decimal form of a clock reading plus the requirement's
\* maxTimeoutSeconds; the signature is over that authorization.
C15_AuthorizationFields ==
    \A c \in CallIds :
        \A i \in DOMAIN signed[c] :
            LET a == signed[c][i].payload.authorization
                req == SignedRequirement(c)
            IN  /\ a.from = agentWallet[c]
                /\ a.to = req.payTo
                /\ a.value = req.maxAmountRequired
                /\ a.validAfter = "0"
                /\ \E now \in Times :
                      a.validBefore = ToString(now + Val(req.maxTimeoutSeconds))
                /\ signed[c][i].payload.signature.message = a

\* Signed at 2000 with a timeout of 300 seconds: valid before 2300.
C15_Witness ==
    \E c \in CallIds :
        /\ Len(signed[c]) = 1
        /\ SignedRequirement(c) = ReqUpto
        /\ signed[c][1].payload.authorization.validBefore = "2300"
        /\ signed[c][1].payload.authorization.value = "2500"
        /\ signed[c][1].payload.authorization.from = Addr("1")

\* The retry request of call c, once sent.
RetrySent(c) == Len(requests[c]) >= 2

\* What base64-decoding and JSON-parsing the X-PAYMENT header of the retry
\* yields.
DecodedPayment(c) == JsonParse(Base64Decode(Val(requests[c][2].headers.xPayment)))

C18_RetryBodyUnchanged ==
    \A c \in CallIds :
        RetrySent(c) =>
            /\ requests[c][2].body = requests[c][1].body
            /\ requests[c][2].url = requests[c][1].url
            /\ requests[c][2].method = requests[c][1].method
            /\ requests[c][2].body
                  = [ sql |-> query[c], agentWallet |-> agentWallet[c],
                      providerId |-> client.providerId ]

C18_Witness ==
    \E c \in CallIds :
        /\ Len(requests[c]) = 2
        /\ requests[c][2].body.sql = <<"d", ";">>
        /\ requests[c][2].body.agentWallet = Addr("1")
        /\ requests[c][2].body.providerId = "provider-1"

\* C19: every request carries the client's API key in x-api-key, and carries
\* X-PAYMENT exactly when it is the retry, the second request of its call.
C19_HeadersOfEveryRequest ==
    \A c \in CallIds :
        \A i \in DOMAIN requests[c] :
            /\ requests[c][i].headers.apiKey = client.apiKey
            /\ client.apiKey # ""
            /\ IsSome(requests[c][i].headers.xPayment) <=> i = 2

C19_Witness ==
    \E c \in CallIds :
        /\ Len(requests[c]) = 2
        /\ requests[c][1].headers.xPayment = None
        /\ requests[c][2].headers.xPayment = Some(EncodeHeader(signed[c][1]))
        /\ requests[c][2].headers.apiKey = "api-key"

\* The retry of call c came back ok with a JSON object as its body.
RetryOk(c) ==
    /\ Len(replies[c]) = 2
    /\ replies[c][2].kind = "response"
    /\ Ok(replies[c][2])
    /\ replies[c][2].body.kind = "object"

\* C20: an ok retry response returns success=true with the body's rows,
\* rowCount and cost fields whatever its X-PAYMENT-RESPONSE header holds; the
\* settlement is absent when the header is absent or does not parse, and is
\* the decoded content of the header when it parses.
C20_SettlementHeaderParsing ==
    \A c \in CallIds :
        RetryOk(c) =>
            LET reply == replies[c][2]
            IN  /\ pc[c] = "SETTLED"
                /\ IsSome(result[c])
                /\ Val(result[c]).success
                /\ Val(result[c]).rows = reply.body.rows
                /\ CarriesCountAndCost(Val(result[c]), reply.body)
                /\ Val(result[c]).error = None
                /\ reply.xPaymentResponse = None => Val(result[c]).settlement = None
                /\ reply.xPaymentResponse = Some(MalformedSettlementHeader) =>
                      Val(result[c]).settlement = None
                /\ reply.xPaymentResponse = Some(SettlementHeader) =>
                      Val(result[c]).settlement
                          = Some([ success |-> TRUE, payer |-> Addr("1"),
                                   transaction |-> "0xabc", network |-> "base",
                                   timestamp |-> 1700 ])

\* A header that is not JSON came with the rows: the rows were returned.
C20_Witness ==
    \E c \in CallIds :
        /\ RetryOk(c)
        /\ replies[c][2].xPaymentResponse = Some(MalformedSettlementHeader)
        /\ Val(result[c]).success
        /\ Val(result[c]).rows = Some(<<"row1", "row2">>)
        /\ Val(result[c]).settlement = None

\* C21: a 200 on the first attempt that carries a settlement header returns
\* the settlement parsed from that header.
C21_FirstOkSettlement ==
    \A c \in CallIds :
        (/\ FirstStatus(c, 200)
         /\ FirstBody(c).kind = "object"
         /\ replies[c][1].xPaymentResponse = Some(SettlementHeader)) =>
            /\ IsSome(result[c])
            /\ Val(result[c]).success
            /\ Val(result[c]).settlement
                  = Some(JsonParse(Base64Decode(SettlementHeader)))

\* The fields of a QueryResult other than success.
OptionalResultFields == DOMAIN EmptyResult \ { "success" }

\* What a caller can tell a result by: success and the fields it carries.
ResultKind(r) ==
    [ success |-> r.success,
      fields |-> { f \in OptionalResultFields : r[f] # None } ]

\* Results of protocol-level errors: a gateway rejection of the first attempt
\* or of the retry, a response body that does not parse, a signing failure.
ProtocolErrorResults ==
    { Catch(GatewayErrorResult(r)) : r \in { x \in Responses : ~Ok(x) /\ ~IsChallenge(x) } }
    \cup { Catch(PaymentErrorResult(r)) : r \in { x \in Responses : ~Ok(x) } }
    \cup { Catch(Throw(JsonSyntaxError)), Catch(Throw(SigningError)) }

\* C22: the result of a transport failure differs in kind from every result
\* of a protocol-level error.
C22_TransportFailureDistinguishable ==
    \A c \in CallIds :
        (/\ replies[c] # <<>>
         /\ replies[c][Len(replies[c])].kind = "reject"
         /\ IsSome(result[c])) =>
            ResultKind(Val(result[c]))
                \notin { ResultKind(r) : r \in ProtocolErrorResults }

\* C23: a first response whose status is neither 2xx nor 402 returns
\* success=false with the error "Gateway error (<status>): <payload>", the
\* payload being the body's error or else the status text; nothing is signed
\* and no second request is sent.
C23_GatewayErrorCarriesStatus ==
    \A c \in CallIds :
        (/\ replies[c] # <<>>
         /\ replies[c][1].kind = "response"
         /\ ~Ok(replies[c][1])
         /\ ~IsChallenge(replies[c][1])) =>
            /\ signed[c] = <<>>
            /\ Len(requests[c]) = 1
            /\ pc[c] = "FAILED"
            /\ IsSome(result[c])
            /\ ~Val(result[c]).success
            /\ Val(result[c]).error
                  = Some("Gateway error (" \o ToString(replies[c][1].status) \o "): "
                         \o ErrorDetail(replies[c][1]))

\* The operations the integration tests try: DROP, INSERT, DELETE.
TestedOperations == { 1, 2, 4 }

\* Call c was made with one of the tested operations as a whole word and
\* validation has run.
TestedOperationValidated(c) ==
    /\ pc[c] \notin { "idle", "VALIDATED" }
    /\ ForbiddenWords(query[c]) \cap TestedOperations # {}

AloneOutcome(c) ==
    IF IsSome(validateQuery(query[c]))
    THEN CatchValidation(Throw(Val(validateQuery(query[c]))))
    ELSE
    LET first == replies[c][1]
    IN  IF first.kind = "reject" THEN Catch(Throw(first.message))
        ELSE IF ~IsChallenge(first)
        THEN IF Ok(first) THEN Catch(InitialSuccessResult(first))
             ELSE Catch(GatewayErrorResult(first))
        ELSE IF IsSome(ChallengeResult(client.wallet, first.body))
        THEN Catch(Val(ChallengeResult(client.wallet, first.body)))
        ELSE IF signed[c] = <<>>
        THEN Catch(signAuthorization(client.wallet,
                                     SelectRequirement(Val(first.body.accepts)),
                                     agentWallet[c], 0, ""))
        ELSE
        LET second == replies[c][2]
        IN  IF second.kind = "reject" THEN Catch(Throw(second.message))
            ELSE IF Ok(second) THEN Catch(PaymentSuccessResult(second))
            ELSE Catch(PaymentErrorResult(second))

\* The requests, the signed header and the result of call c are those of the
\* call run alone: built from its own arguments and its own replies.
RunsAsAlone(c) ==
    /\ \A i \in DOMAIN requests[c] :
          /\ requests[c][i].body
                = [ sql |-> query[c], agentWallet |-> agentWallet[c],
                    providerId |-> client.providerId ]
          /\ requests[c][i].headers.xPayment
                = IF i = 1 THEN None ELSE Some(EncodeHeader(signed[c][1]))
    /\ Len(requests[c]) <= 2
    /\ Len(signed[c]) <= 1
    /\ \A i \in DOMAIN signed[c] :
          /\ BuiltFrom(signed[c][i], SelectRequirement(Val(FirstBody(c).accepts)),
                       agentWallet[c])
          /\ signed[c][i].payload.signature.signer = Val(client.wallet).address
    /\ pc[c] \in Terminal => result[c] = Some(AloneOutcome(c))
    /\ pc[c] \notin Terminal => result[c] = None

\* A step is the step of one call: it leaves the client and everything of
\* every other call as it was.
StepsOneCall ==
    /\ client' = client
    /\ \E c \in DOMAIN pc :
          \A d \in DOMAIN pc \ { c } :
              /\ pc'[d] = pc[d]
              /\ query'[d] = query[d]
              /\ agentWallet'[d] = agentWallet[d]
              /\ requests'[d] = requests[d]
              /\ replies'[d] = replies[d]
              /\ signed'[d] = signed[d]
              /\ result'[d] = result[d]
              /\ trail'[d] = trail[d]

\* C24: under every interleaving of two calls on one client, each call's
\* requests, signed authorization and result are those of the call run alone
\* against the same replies, and every step changes the state of one call
\* only.
C24_CallsIndependent ==
    /\ [](\A c \in DOMAIN pc : RunsAsAlone(c))
    /\ [][StepsOneCall]_vars

\* Both calls paid, each with a nonce of its own, and both were settled.
C24_Witness ==
    /\ pc["call"] = "SETTLED"
    /\ pc["other"] = "SETTLED"
    /\ Len(requests["call"]) = 2
    /\ Len(requests["other"]) = 2
    /\ signed["call"][1].payload.authorization.nonce
          # signed["other"][1].payload.authorization.nonce

\* The reply call c ended on.
LastReply(c) == replies[c][Len(replies[c])]

\* Calls c and d were made with the same arguments and got the same replies.
SameInputs(c, d) ==
    /\ query[c] = query[d]
    /\ agentWallet[c] = agentWallet[d]
    /\ replies[c] = replies[d]

\* C25: the paymentSource of a successful result is the one received in the
\* response the call ended on, no step of any call changes the client, and
\* two calls with the same arguments and replies return the same result
\* whichever ran first.
C25_StatelessClient ==
    /\ [](\A c \in DOMAIN pc :
            pc[c] = "SETTLED" =>
                Val(result[c]).paymentSource = LastReply(c).body.paymentSource)
    /\ [](\A c, d \in DOMAIN pc :
            (pc[c] \in Terminal /\ pc[d] \in Terminal /\ SameInputs(c, d)) =>
                result[c] = result[d])
    /\ [][client' = client]_vars

\* One call was served from credit, the other paid, on the same client.
C25_Witness ==
    /\ pc["call"] = "SETTLED"
    /\ pc["other"] = "SETTLED"
    /\ Val(result["call"]).paymentSource = Some("credit")
    /\ Val(result["other"]).paymentSource = Some("payment")
    /\ Len(requests["call"]) = 1
    /\ Len(requests["other"]) = 2

\* text is empty or made of white space only.
Blank(text) == \A i \in DOMAIN text : text[i] \in WhiteSpace

\* The handler returned this error for call c without calling
\* client.executeQuery.
RejectedByHandler(c, message) ==
    /\ tool[c].pc = "returned"
    /\ tool[c].response = Some(ToolError(message))
    /\ pc[c] = "idle"
    /\ trail[c] = <<>>
    /\ requests[c] = <<>>

\* C26: the handler rejects a blank query with "query is required", else a
\* blank wallet address with "wallet address is required", else an address
\* that is not 0x + 40 hex characters with "Invalid wallet address format...";
\* each time with success=false and without calling client.executeQuery.
C26_HandlerRejectsBadInput ==
    \A c \in CallIds :
        tool[c].pc # "idle" =>
            LET input == Val(tool[c].input)
            IN  /\ Blank(input.query) => RejectedByHandler(c, "query is required")
                /\ (~Blank(input.query) /\ Blank(input.walletAddress)) =>
                      RejectedByHandler(c, "wallet address is required")
                /\ (~Blank(input.query) /\ ~Blank(input.walletAddress)
                      /\ ~IsHexAddress(input.walletAddress)) =>
                      RejectedByHandler(c, InvalidAddressError)

\* A query with a wallet address of two blanks was turned back.
C26_Witness ==
    \E c \in CallIds :
        /\ tool[c].pc = "returned"
        /\ Val(tool[c].input).query = <<"d", ";">>
        /\ Val(tool[c].input).walletAddress = <<" ", " ">>
        /\ RejectedByHandler(c, "wallet address is required")

\* C27: the handler never throws; when client.executeQuery rejects, it
\* returns success=false with the exception's message as error, and when the
\* client returns success=false with an error (and no payment request), it
\* returns success=false with that error.
C27_HandlerNeverThrows ==
    \A c \in CallIds :
        /\ tool[c].pc # "faulted"
        /\ (tool[c].pc = "returned" /\ pc[c] # "idle") =>
              LET o == Val(result[c])
                  response == Val(tool[c].response)
              IN  /\ IsThrown(o) => response = ToolError(o.thrown)
                  /\ (~IsThrown(o) /\ ~o.success /\ IsSome(o.error)
                        /\ o.paymentRequired = None) =>
                        /\ ~response.success
                        /\ response.error = o.error

\* executeQuery rejected with "Network error" and the handler returned it.
C27_Witness ==
    \E c \in CallIds :
        /\ pc[c] = "FAULTED"
        /\ Val(result[c]) = Throw("Network error")
        /\ tool[c].pc = "returned"
        /\ Val(tool[c].response).error = Some("Network error")
        /\ ~Val(tool[c].response).success

\* The message the constructor fails with for a configuration with an empty
\* required field: the first empty one of gatewayUrl, providerId, apiKey.
RequiredFieldError(config) ==
    IF config.gatewayUrl = "" THEN "gatewayUrl is required"
    ELSE IF config.providerId = "" THEN "providerId is required"
    ELSE "apiKey is required"

HasEmptyRequiredField(config) ==
    config.gatewayUrl = "" \/ config.providerId = "" \/ config.apiKey = ""

\* agentPrivateKey was provided: it is present and not the empty string.
KeyProvided(config) ==
    IsSome(config.agentPrivateKey) /\ Val(config.agentPrivateKey) # ""

\* C28: constructing a client with an empty gatewayUrl, providerId or apiKey
\* fails with "<field> is required" for the first empty one in that order; a
\* client that is constructed has a wallet if and only if agentPrivateKey was
\* provided; and once constructed the client never changes.
C28_Constructor ==
    /\ [](IsSome(server.config) =>
            LET config == Val(server.config)
            IN  /\ HasEmptyRequiredField(config) =>
                      /\ server.pc = "failed"
                      /\ server.error = Some(RequiredFieldError(config))
                      /\ client = NoClient
                /\ server.pc = "running" =>
                      /\ IsSome(client.wallet) <=> KeyProvided(config)
                      /\ client.gatewayUrl = config.gatewayUrl
                      /\ client.providerId = config.providerId
                      /\ client.apiKey = config.apiKey)
    /\ [][server.pc = "running" => client' = client]_vars

\* With providerId and apiKey both empty the constructor named providerId.
C28_Witness ==
    /\ server.pc = "failed"
    /\ Val(server.config).gatewayUrl # ""
    /\ Val(server.config).providerId = ""
    /\ Val(server.config).apiKey = ""
    /\ server.error = Some("providerId is required")

\* The server was started with AGENT_PRIVATE_KEY set, and a tool call of its
\* handler met a 402 challenge with a requirement in it and has returned.
ServerCallChallenged(c) ==
    /\ server.launch = "server"
    /\ server.pc = "running"
    /\ IsSome(Val(server.env).AGENT_PRIVATE_KEY)
    /\ tool[c].pc = "returned"
    /\ FirstStatus(c, 402)
    /\ FirstBody(c).accepts = Some(<<ReqExact>>)

\* C29: a tool call on a server started with AGENT_PRIVATE_KEY that meets a
\* 402 challenge is paid automatically: the authorization is signed, the
\* retry carries X-PAYMENT, and the response does not ask for payment.
C29_ServerPaysAutomatically ==
    \A c \in CallIds :
        ServerCallChallenged(c) =>
            /\ Len(signed[c]) = 1
            /\ Len(requests[c]) = 2
            /\ IsSome(requests[c][2].headers.xPayment)
            /\ Val(tool[c].response).paymentRequired = None


----------------------------------------------------------------------------
\* The retry of call c has resolved with a response.
RetryAnswered(c) ==
    /\ Len(replies[c]) = 2
    /\ replies[c][2].kind = "response"

\* C31: on the retry the result is success=true if and only if the status of
\* the gateway's answer is 200 (its body being a JSON object); every other
\* status, the other 2xx codes included, ends in FAILED.
C31_RetrySuccessIffStatus200 ==
    \A c \in CallIds :
        (RetryAnswered(c) /\ replies[c][2].body.kind = "object") =>
            /\ IsSome(result[c])
            /\ Val(result[c]).success <=> replies[c][2].status = 200
            /\ replies[c][2].status # 200 => pc[c] = "FAILED"


----------------------------------------------------------------------------
\* Termination.

\* executeQuery is straight-line code around two awaited fetches: each step
\* of a call that can run does run, and each fetch that was sent eventually
\* resolves or rejects.
Fairness ==
    \A c \in CallIds :
        /\ WF_vars(Validate(c))
        /\ WF_vars(FirstResponse(c, Responses) \/ FirstReject(c, Rejections))
        /\ WF_vars(HandleChallenge(c, Times, Nonces))
        /\ WF_vars(Retry(c))
        /\ WF_vars(SecondResponse(c, Responses) \/ SecondReject(c, Rejections))

SpecTermination == Init /\ [][Next]_vars /\ Fairness

\* A call that has returned stays where it returned, and no call sends a
\* third request.
ReturnsOnce ==
    \A c \in CallIds :
        /\ pc[c] \in Terminal => (pc'[c] = pc[c] /\ result'[c] = result[c])
        /\ Len(requests'[c]) <= 2

\* C32: every executeQuery call terminates: when every request sent eventually
\* resolves or rejects, a call that was made eventually returns in exactly one
\* of SETTLED, FAILED and AWAITING_MANUAL_PAYMENT, stays there, and never
\* sends more than two requests.
C32_CallTerminates ==
    /\ \A c \in CallIds :
          (pc[c] = "VALIDATED") ~> (pc[c] \in Terminal /\ IsSome(result[c]))
    /\ [][ReturnsOnce]_vars

\* A call that went through the challenge and the retry has returned.
C32_Witness ==
    \E c \in CallIds :
        /\ trail[c] = <<"VALIDATED", "ATTEMPTED", "CHALLENGED", "SIGNED",
                        "RETRIED", "FAILED">>
        /\ Len(requests[c]) = 2
        /\ IsSome(result[c])


----------------------------------------------------------------------------
\* The first reply is a 402 whose accepts list is empty, without a signing key.
EmptyChallengeWithoutKey(c) ==
    /\ FirstStatus(c, 402)
    /\ client.wallet = None
    /\ FirstBody(c).kind = "object"
    /\ FirstBody(c).accepts = Some(<<>>)

\* C33: the missing signing key is looked for before the empty list: a 402
\* whose accepts list is empty, on a client without a signing key, ends in
\* AWAITING_MANUAL_PAYMENT with paymentRequired=true and the challenge, empty
\* list included, handed back; it never ends FAILED.
C33_NoKeyBeforeEmptyList ==
    \A c \in CallIds :
        EmptyChallengeWithoutKey(c) =>
            /\ pc[c] \in { "CHALLENGED", "AWAITING_MANUAL_PAYMENT" }
            /\ Len(requests[c]) = 1
            /\ pc[c] = "AWAITING_MANUAL_PAYMENT" =>
                /\ IsSome(result[c])
                /\ ~Val(result[c]).success
                /\ Val(result[c]).paymentRequired = Some(TRUE)
                /\ IsSome(Val(result[c]).paymentRequirements)
                /\ Val(Val(result[c]).paymentRequirements).accepts = Some(<<>>)
                /\ Val(result[c]).error = None

C33_Witness ==
    \E c \in CallIds :
        /\ EmptyChallengeWithoutKey(c)
        /\ pc[c] = "AWAITING_MANUAL_PAYMENT"
        /\ Val(result[c]).paymentRequirements
              = Some(ChallengeBody(1, "payment required", Some(<<>>)))


----------------------------------------------------------------------------
\* C34: every signed authorization sent to the gateway names as from the
\* address of the account that signed it, the configured signing key; no
\* retry carries an authorization whose from, the caller's address, is
\* another account's.
C34_FromIsSigner ==
    \A c \in CallIds :
        RetrySent(c) =>
            /\ DecodedPayment(c).payload.signature.signer = Val(client.wallet).address
            /\ DecodedPayment(c).payload.authorization.from
                  = DecodedPayment(c).payload.signature.signer


----------------------------------------------------------------------------
\* C35: every signed authorization is signed under the same typed-data domain
\* (USD Coin, version 2, chain 8453, the one asset contract) and its header
\* says x402Version 1, whatever asset and network the chosen requirement names
\* and whatever x402Version the challenge carried; the header's scheme and
\* network are those of the chosen requirement.
C35_FixedDomainAndVersion ==
    \A c \in CallIds :
        \A i \in DOMAIN signed[c] :
            /\ signed[c][i].payload.signature.domain
                  = [ name |-> "USD Coin", version |-> "2", chainId |-> 8453,
                      verifyingContract |-> "0x833589fCD6eDb6E08f4c7C32D4f71b54bdA02913" ]
            /\ signed[c][i].x402Version = 1
            /\ signed[c][i].scheme = SignedRequirement(c).scheme
            /\ signed[c][i].network = SignedRequirement(c).network

\* A challenge of version 2 asked for another network's asset: the header
\* names that network, under the fixed domain and version 1.
C35_Witness ==
    \E c \in CallIds :
        /\ Len(signed[c]) = 1
        /\ FirstBody(c).x402Version = Some(2)
        /\ SignedRequirement(c).asset
              # signed[c][1].payload.signature.domain.verifyingContract
        /\ signed[c][1].network = "base-sepolia"
        /\ signed[c][1].scheme = "upto"
        /\ signed[c][1].payload.signature.domain.chainId = 8453
        /\ signed[c][1].x402Version = 1


----------------------------------------------------------------------------
\* The denylist in its fixed order.
DenylistOrder ==
    <<"DROP", "DELETE", "UPDATE", "INSERT", "ALTER", "CREATE", "TRUNCATE",
      "GRANT", "REVOKE">>

\* C36: a query that holds several denylisted keywords as whole words is
\* rejected for the one that comes first in the denylist's order (DROP,
\* DELETE, UPDATE, INSERT, ALTER, CREATE, TRUNCATE, GRANT, REVOKE), wherever
\* the keywords stand in the query.
C36_FirstInDenylistOrder ==
    \A c \in CallIds :
        (pc[c] \notin { "idle", "VALIDATED" } /\ ForbiddenWords(query[c]) # {}) =>
            LET words == ForbiddenWords(query[c])
                first == CHOOSE k \in words : \A j \in words : k <= j
            IN  /\ pc[c] = "FAILED"
                /\ Val(result[c]).error
                      = Some("Forbidden SQL operation: " \o DenylistOrder[first])

\* "grant DROP" was rejected for DROP, though grant stands first in it.
C36_Witness ==
    \E c \in CallIds :
        /\ query[c] = <<"g","r","a","n","t"," ","D","R","O","P">>
        /\ ForbiddenWords(query[c]) = { 1, 8 }
        /\ pc[c] = "FAILED"
        /\ Val(result[c]).error = Some("Forbidden SQL operation: DROP")


----------------------------------------------------------------------------
\* The handler of call c returned after client.executeQuery resolved with a
\* QueryResult.
ReturnedFromClient(c) ==
    /\ tool[c].pc = "returned"
    /\ pc[c] \in Terminal
    /\ IsSome(result[c])

----------------------------------------------------------------------------
\* What a summary says before any parenthesis, for the row counts and costs
\* of the results at hand.
SummaryHeads ==
    { "Query returned " \o rows \o " rows. Cost: $" \o cost :
        rows \in { "5", "undefined" },
        cost \in { "0.000000", "0.000050", "0.000060" } }

\* summary names the settlement transaction tx.
ShowsSettlement(summary, tx) ==
    \E head \in SummaryHeads : summary = head \o " (settlement: " \o tx \o ")"

\* C38: the summary of every successful result that carries a settlement
\* shows the settlement's transaction identifier, also when the result's
\* paymentSource is 'credit'.
C38_SummaryShowsSettlement ==
    \A c \in CallIds :
        (/\ tool[c].pc = "returned"
         /\ Val(tool[c].response).success
         /\ IsSome(Val(Val(tool[c].response).data).settlement)) =>
            ShowsSettlement(Val(Val(tool[c].response).data).summary,
                            Val(Val(Val(tool[c].response).data).settlement).transaction)


----------------------------------------------------------------------------
\* The check_balance tool handler (tools/check-balance.ts), wired by index.ts
\* to the X402Client.

\* The methods an X402Client object has: those of the class body.
X402ClientMethods ==
    { "validateQuery", "generateNonce", "signAuthorization", "executeQuery" }

\* The TypeError of calling client.<method> when the object has no such
\* method.
NotAFunction(method) == "client." \o method \o " is not a function"

\* How the gateway answers GET /api/balance/<wallet>/<provider> when asked:
\* a status, the balance it reports when the status is ok, and the text of
\* its body otherwise.
BalanceAnswer(status, balance, text) ==
    [ status |-> status, balance |-> balance, text |-> text ]

BalanceAnswers ==
    { BalanceAnswer(200, Some("0.000050"), ""), BalanceAnswer(200, Some("0"), ""),
      BalanceAnswer(503, None, "Service Unavailable") }

\* CheckBalanceResult values.
EmptyBalanceResult ==
    [ success |-> FALSE, balance |-> None, balanceUSD |-> None,
      walletAddress |-> None, lastUpdated |-> None, message |-> None,
      error |-> None ]

BalanceError(message) == [EmptyBalanceResult EXCEPT !.error = Some(message)]

\* Lines 44-56: the error the handler returns for its input, None when it
\* goes on to client.getBalance.
ValidateBalanceInput(input) ==
    IF input.walletAddress = <<>> \/ trim(input.walletAddress) = <<>>
    THEN Some("wallet address is required")
    ELSE IF ~validateWalletAddress(input.walletAddress)
    THEN Some(InvalidAddressError)
    ELSE None

\* client.getBalance(input.walletAddress) on an object with these methods:
\* without a getBalance method the call throws; with one it settles as the
\* method does.
CallGetBalance(methods, settled) ==
    IF "getBalance" \in methods THEN settled ELSE Throw(NotAFunction("getBalance"))

\* Lines 59-80: what the handler makes of the settled client.getBalance;
\* balanceUSD is in millionths.
BalanceHandlerResult(o) ==
    IF IsThrown(o) THEN o
    ELSE IF o.success
    THEN LET balanceUSD == ParseFloatMicros(IF IsSome(o.balance) /\ Val(o.balance) # ""
                                            THEN Val(o.balance) ELSE "0")
         IN  [EmptyBalanceResult EXCEPT
                !.success = TRUE,
                !.balance = o.balance,
                !.balanceUSD = Some(balanceUSD),
                !.walletAddress = o.agentWallet,
                !.lastUpdated = o.updatedAt,
                !.message = Some(IF balanceUSD > 0
                                 THEN "Balance: $" \o ToFixed6(balanceUSD) \o " USDC"
                                 ELSE "No balance found. You need to deposit funds before executing queries.")]
    ELSE BalanceError(IF IsSome(o.error) /\ Val(o.error) # ""
                      THEN Val(o.error) ELSE "Failed to check balance")

\* Lines 81-86: catch (error) { return { success: false, error: error.message } }
CatchBalance(o) == IF IsThrown(o) THEN BalanceError(o.thrown) ELSE o

\* What the getBalance method of the earlier client (x402-client.ts.backup)
\* resolves with for the gateway's answer, the gateway naming the wallet it
\* was asked about.
BalanceResultOf(input, answer) ==
    IF answer.status >= 200 /\ answer.status <= 299
    THEN [ success |-> TRUE, agentWallet |-> Some(input.walletAddress),
           balance |-> answer.balance, updatedAt |-> None, error |-> None ]
    ELSE [ success |-> FALSE, agentWallet |-> None, balance |-> None,
           updatedAt |-> None,
           error |-> Some("Gateway error (" \o ToString(answer.status) \o "): "
                          \o answer.text) ]

\* index.ts lines 38 and 69-71: the check_balance tool is called with an
\* input, over the client the server constructed, the gateway being ready to
\* answer a balance request with one of answers.
CheckBalance(c, inputs, answers) ==
    /\ server.pc = "running"
    /\ tool[c].pc = "idle"
    /\ \E input \in inputs, answer \in answers :
        LET o == IF IsSome(ValidateBalanceInput(input))
                 THEN BalanceError(Val(ValidateBalanceInput(input)))
                 ELSE CatchBalance(BalanceHandlerResult(
                        CallGetBalance(X402ClientMethods,
                                       BalanceResultOf(input, answer))))
        IN  tool' = [tool EXCEPT ![c] = [ pc |-> "returned", input |-> Some(input),
                                          response |-> Some(o),
                                          gateway |-> Some(answer) ]]
    /\ UNCHANGED <<server, client, pc, query, agentWallet, requests, replies, signed,
                   result, trail>>

BalanceInputs == { [ walletAddress |-> w ] : w \in ToolWallets }

NextBalance ==
    \/ StartServer(Envs)
    \/ NewClient(Configs)
    \/ \E c \in CallIds : CheckBalance(c, BalanceInputs, BalanceAnswers)

\* The server, or a program that constructs the client itself, and the
\* check_balance handler over the client constructed.
SpecBalance == InitServer /\ [][NextBalance]_vars

\* C39: the check_balance tool, over the client the server constructs, returns
\* success=true with the balance the gateway reports whenever the wallet
\* address is valid and the gateway answers balance requests with 200.
C39_CheckBalanceReportsBalance ==
    \A c \in CallIds :
        (/\ tool[c].pc = "returned"
         /\ server.launch = "server"
         /\ validateWalletAddress(Val(tool[c].input).walletAddress)
         /\ Val(tool[c].gateway).status = 200) =>
            /\ Val(tool[c].response).success
            /\ Val(tool[c].response).balance = Val(tool[c].gateway).balance

====
